---- MODULE Spec2Model ----
(***************************************************************************)
(* Model of pyatlas' clustering pipeline (src/pyatlas/clustering): the     *)
(* constellation builder, the cluster metadata generator, the cluster      *)
(* labeler, the cluster id generator and the coordinate scaling.  Each     *)
(* component has its own variables and its own specification; while one    *)
(* component runs the variables of the others rest at their idle values.   *)
(*                                                                         *)
(* A data frame is a sequence of rows.  Coordinates are small integers;    *)
(* Euclidean distances are compared through their squares, which orders    *)
(* them exactly as the distances themselves.  Fractions (top_percent,      *)
(* cutoff_length_frac) are integers counted in hundredths.                 *)
(***************************************************************************)
EXTENDS Integers, Sequences, FiniteSets, TLC

(***************************************************************************)
(* Bounds of the checked input family.                                     *)
(***************************************************************************)
MaxX == 2

MaxDownloads == 1

MaxClusterId == 1

\* packages of the cluster a labeling prompt is built for
MaxPackages == 64

\* points handed to a UMAP projection
MaxPoints == 40

\* matches of one pattern in a description
MaxMatches == 2

\* rows of the frame descriptions are extracted from
MaxRows == 3

\* Package names, one per row of the data frame (the name is a unique key).
PackageNames == <<"a", "b", "c", "d">>

NumRows == Len(PackageNames)

\* An absent weekly_downloads value (left join in get_dataset, empty CSV cell).
Null == -1

(***************************************************************************)
(* Program constants, fractions in hundredths.                             *)
(***************************************************************************)
TOP_PERCENT_PACKAGES == 15

MIN_PACKAGES_FOR_CONSTELLATION == 3

CUTOFF_LENGTH_FRAC == 5

\* ClusterLabeler.max_chars_per_summary
max_chars_per_summary == 256

\* n_neighbors of the UMAP projection the clusters are found in
N_NEIGHBORS_CLUSTERING == 10

\* n_neighbors of the UMAP projection to the two display coordinates
N_NEIGHBORS_DISPLAY == 12

\* length below which a stripped description is plain text
MIN_DESCRIPTION_LENGTH == 10

\* y coordinates of the grid the points are drawn from
Ys == {0, 1}

\* cutoff_length_frac values: the default, one that separates the edge lengths
\* of the grid, and the one of the test fixture
Cutoffs == {CUTOFF_LENGTH_FRAC, 75, 1000}

\* <<min_packages, top_percent>> of the selection family
SelParams ==
    {<<2, 75>>, <<MIN_PACKAGES_FOR_CONSTELLATION, TOP_PERCENT_PACKAGES>>,
     <<MIN_PACKAGES_FOR_CONSTELLATION, 100>>}

VARIABLES
    df,                  \* the clustered data frame passed to generate_constellations
    top_percent,         \* generator field, in hundredths
    min_packages,        \* generator field
    cutoff_length_frac,  \* generator field, in hundredths
    pc,                  \* position in generate_constellations
    cluster_ids,         \* cluster ids the loop has still to visit
    all_edges,           \* edges collected so far
    calls,               \* locals of each finished _generate_cluster_constellation call
    result,              \* the returned data frame
    meta_pc,             \* position in generate_cluster_metadata
    meta_ids,            \* cluster ids its loop has still to visit
    metadata_rows,       \* the records appended so far
    metadata,            \* the data frame it returns
    label_pc,            \* position in generate_cluster_labels
    label_ids,           \* cluster ids its loop has still to visit
    label_rows,          \* the label rows appended so far
    label_calls,         \* the calls of the external labeling service so far
    labels,              \* the data frame it returns
    prompt_pc,           \* position in _create_prompt
    prompt_cluster,      \* the cluster_data it is called with
    packages_info,       \* length of the formatted package list
    trimmed_info,        \* length of the package list placed in the prompt
    ids_pc,              \* position in generate_cluster_ids
    ids_df,              \* the data frame it is called with
    ids_labels,          \* the labels fit_predict returned
    ids_result,          \* the data frame it builds and returns
    scale_pc,            \* position in _log_radius_scale
    scale_coords,        \* the array (coords) it is applied to
    coords_in,           \* that array as the caller built it
    locals,              \* center, centered, r, r_safe and r_log of the running call
    returned,            \* the arrays returned by the finished calls
    main_pc,             \* the stage main() runs next
    data_folder,         \* the files in the data folder
    overwrite_download,  \* config.etl.overwrite_download
    completed,           \* the stages that completed in this run
    reads,               \* the reads of artifacts so far
    json_pc,             \* position in generate_json_outputs
    df_packages,         \* the clustered dataset it read
    df_constellations,   \* the constellation edges it read
    package_name_to_id,  \* its dict from package name to id
    packages,            \* the package list built so far
    constellations,      \* the edge list built so far
    edges_seen,          \* rows of df_constellations the edge loop has visited
    reduce_pc,           \* position in a UMAP projection function
    n_points,            \* rows of the embeddings array it is called with
    projection,          \* which of the two projection functions runs
    fit,                 \* what fit_transform did
    detect_pc,           \* position in ContentTypeDetector.detect
    description,         \* the description it is called with
    content_type,        \* the content type metadata it is called with
    detected,            \* the content type it returns
    clean_pc,            \* position in DescriptionCleaner.extract_text
    clean_df,            \* the data frame it is called with
    results,             \* the values its loop has appended
    clean_log,           \* what detection and rendering did for each processed row
    clean_out            \* the data frame it returns

constellationVars == <<top_percent, min_packages, cutoff_length_frac, pc,
                       cluster_ids, all_edges, calls, result>>

metaVars == <<meta_pc, meta_ids, metadata_rows, metadata>>

labelVars == <<label_pc, label_ids, label_rows, label_calls, labels>>

promptVars == <<prompt_pc, prompt_cluster, packages_info, trimmed_info>>

idsVars == <<ids_pc, ids_df, ids_labels, ids_result>>

coordsVars == <<scale_pc, scale_coords, coords_in, locals, returned>>

mainVars == <<main_pc, data_folder, overwrite_download, completed, reads>>

jsonVars == <<json_pc, df_packages, df_constellations, package_name_to_id,
              packages, constellations, edges_seen>>

reduceVars == <<reduce_pc, n_points, projection, fit>>

detectVars == <<detect_pc, description, content_type, detected>>

cleanVars == <<clean_pc, clean_df, results, clean_log, clean_out>>

vars == <<df, constellationVars, metaVars, labelVars, promptVars, idsVars,
          coordsVars, mainVars, jsonVars, reduceVars, detectVars, cleanVars>>

\* the variables the constellation builder does not touch
nonConstellationVars ==
    <<metaVars, labelVars, promptVars, idsVars, coordsVars,
      mainVars, jsonVars, reduceVars,
      detectVars, cleanVars>>

\* the variables the metadata generator does not touch
nonMetaVars ==
    <<constellationVars, labelVars, promptVars, idsVars, coordsVars,
      mainVars, jsonVars, reduceVars,
      detectVars, cleanVars>>

\* the variables the labeler's loop does not touch
nonLabelVars ==
    <<constellationVars, metaVars, promptVars, idsVars, coordsVars,
      mainVars, jsonVars, reduceVars,
      detectVars, cleanVars>>

\* the variables _create_prompt does not touch
nonPromptVars ==
    <<constellationVars, metaVars, labelVars, idsVars, coordsVars,
      mainVars, jsonVars, reduceVars,
      detectVars, cleanVars>>

\* the variables generate_cluster_ids does not touch
nonIdsVars ==
    <<constellationVars, metaVars, labelVars, promptVars, coordsVars,
      mainVars, jsonVars, reduceVars,
      detectVars, cleanVars>>

\* the variables _log_radius_scale does not touch
nonCoordsVars ==
    <<constellationVars, metaVars, labelVars, promptVars, idsVars, mainVars,
      jsonVars, reduceVars,
      detectVars, cleanVars>>

\* the variables main() does not touch
nonMainVars ==
    <<constellationVars, metaVars, labelVars, promptVars, idsVars, coordsVars,
      jsonVars, reduceVars,
      detectVars, cleanVars>>

\* the variables the lists of generate_json_outputs do not touch
nonJsonVars ==
    <<constellationVars, metaVars, labelVars, promptVars, idsVars, coordsVars,
      mainVars, reduceVars,
      detectVars, cleanVars>>

\* the variables the UMAP projections do not touch
nonReduceVars ==
    <<constellationVars, metaVars, labelVars, promptVars, idsVars, coordsVars,
      mainVars, jsonVars,
      detectVars, cleanVars>>

\* the variables ContentTypeDetector.detect does not touch
nonDetectVars ==
    <<constellationVars, metaVars, labelVars, promptVars, idsVars, coordsVars,
      mainVars, jsonVars, reduceVars, cleanVars>>

\* the variables DescriptionCleaner.extract_text does not touch
nonCleanVars ==
    <<constellationVars, metaVars, labelVars, promptVars, idsVars, coordsVars,
      mainVars, jsonVars, reduceVars, detectVars>>

(***************************************************************************)
(* Cluster ids.  A cluster_id column is either Utf8 (as written by         *)
(* generate_cluster_ids) or Int64 (as inferred when the clustered CSV is   *)
(* read back).  StrId(n) is the decimal string of n, IntId(n) the integer. *)
(***************************************************************************)
StrId(n) == [t |-> "str", v |-> n]

IntId(n) == [t |-> "int", v |-> n]

ClusterIdValues(kind) == {[t |-> kind, v |-> n] : n \in -1..MaxClusterId}

Max2(a, b) == IF a >= b THEN a ELSE b

Range(s) == {s[i] : i \in DOMAIN s}

IsNoiseOnlyInt(cid) == cid = IntId(-1)

\* cid not in (-1, "-1")

IsNoise(cid) == cid \in {IntId(-1), StrId(-1)}

\* sorted(...) of a list of ids of one type; for the single-digit ids of the
\* model the lexicographic order of the strings is the numeric order.
RECURSIVE SortedIds(_)
SortedIds(S) ==
    IF S = {} THEN <<>>
    ELSE LET m == CHOOSE a \in S : \A b \in S : a.v <= b.v
         IN <<m>> \o SortedIds(S \ {m})

_get_unique_cluster_ids(d) ==
    SortedIds({cid \in {d[i].cluster_id : i \in DOMAIN d} : ~IsNoise(cid)})

_get_cluster_data_all(d, cluster_id) == d

_get_cluster_data(d, cluster_id) ==
    SelectSeq(d, LAMBDA r : r.cluster_id = cluster_id)

(***************************************************************************)
(* cluster_data.sort(weekly_downloads, descending=True): nulls come first, *)
(* then the values in descending order.  maintain_order is not requested,  *)
(* so the relative order of rows with equal keys is unspecified: every     *)
(* permutation sorted by the key is a possible outcome.                    *)
(***************************************************************************)
SortKeyBefore(a, b) ==
    \/ a = Null
    \/ (b # Null /\ a >= b)

Perms(n) == {f \in [1..n -> 1..n] : \A i, j \in 1..n : i # j => f[i] # f[j]}

SortDescending(s) ==
    {[i \in 1..Len(s) |-> s[f[i]]] : f \in
        {g \in Perms(Len(s)) : \A i \in 1..Len(s) - 1 :
            SortKeyBefore(s[g[i]].weekly_downloads, s[g[i + 1]].weekly_downloads)}}

\* .head(n)
Head_n(s, n) == SubSeq(s, 1, IF n < Len(s) THEN n ELSE Len(s))

\* n_top = max(self.min_packages, int(n_packages * self.top_percent))
NTop(n_packages, mp, tp) == Max2(mp, (n_packages * tp) \div 100)

InsufficientPackagesOffByOne(n, mp) == n < mp - 1

\* if n_packages < self.min_packages / if len(top_packages) < self.min_packages
InsufficientPackages(n, mp) == n < mp

(***************************************************************************)
(* _compute_mst: scipy's minimum_spanning_tree over csr_matrix(distances). *)
(* The sparse matrix stores the non-zero entries only, so a zero distance  *)
(* is no edge of the graph.  The entries are stably sorted by weight from  *)
(* their row-major order and taken by Kruskal's algorithm with union-find; *)
(* the kept entries are returned in row-major order.                       *)
(***************************************************************************)
Dist2(coords, i, j) ==
    (coords[i][1] - coords[j][1]) * (coords[i][1] - coords[j][1])
    + (coords[i][2] - coords[j][2]) * (coords[i][2] - coords[j][2])

\* row-major enumeration of the index pairs of an n x n matrix
RowMajor(n) == [p \in 1..(n * n) |-> <<((p - 1) \div n) + 1, ((p - 1) % n) + 1>>]

\* csr_matrix(distances): the stored entries, in row-major order
CsrEntries(coords) ==
    SelectSeq(RowMajor(Len(coords)), LAMBDA e : Dist2(coords, e[1], e[2]) > 0)

\* np.argsort(data, kind='stable')
RECURSIVE StableSortByWeight(_, _)
StableSortByWeight(coords, entries) ==
    IF entries = <<>> THEN <<>>
    ELSE LET W(p) == Dist2(coords, entries[p][1], entries[p][2])
             m == CHOOSE p \in DOMAIN entries :
                    /\ \A q \in DOMAIN entries : W(p) <= W(q)
                    /\ \A q \in 1..(p - 1) : W(q) > W(p)
             rest == [q \in 1..(Len(entries) - 1) |->
                        IF q < m THEN entries[q] ELSE entries[q + 1]]
         IN <<entries[m]>> \o StableSortByWeight(coords, rest)

\* the union-find pass: comp maps a node to the representative of its component
RECURSIVE Kruskal(_, _, _)
Kruskal(sorted, comp, kept) ==
    IF sorted = <<>> THEN kept
    ELSE LET e == Head(sorted)
             r1 == comp[e[1]]
             r2 == comp[e[2]]
         IN IF r1 # r2
            THEN Kruskal(Tail(sorted),
                         [v \in DOMAIN comp |-> IF comp[v] = r2 THEN r1 ELSE comp[v]],
                         kept \cup {e})
            ELSE Kruskal(Tail(sorted), comp, kept)

_compute_mst(coords) ==
    LET entries == CsrEntries(coords)
        kept == Kruskal(StableSortByWeight(coords, entries),
                        [v \in 1..Len(coords) |-> v], {})
    IN SelectSeq(entries, LAMBDA e : e \in kept)

(***************************************************************************)
(* _generate_cluster_constellation, for one outcome `sorted` of the sort.  *)
(***************************************************************************)
MakeEdgeSwapped(cluster_id, top_packages, e) ==
    [cluster_id |-> cluster_id,
     from_package |-> top_packages[e[1]].name,
     to_package |-> top_packages[e[2]].name,
     from_x |-> top_packages[e[2]].x,
     from_y |-> top_packages[e[1]].y,
     to_x |-> top_packages[e[1]].x,
     to_y |-> top_packages[e[2]].y]

\* the edge dict appended for the MST entry e = <<i, j>>
MakeEdge(cluster_id, top_packages, e) ==
    [cluster_id |-> cluster_id,
     from_package |-> top_packages[e[1]].name,
     to_package |-> top_packages[e[2]].name,
     from_x |-> top_packages[e[1]].x,
     from_y |-> top_packages[e[1]].y,
     to_x |-> top_packages[e[2]].x,
     to_y |-> top_packages[e[2]].y]

ClusterCallWholeFrame(d, cluster_id, mp, tp, sorted) ==
    LET cluster_data == _get_cluster_data(d, cluster_id)
        n_packages == Len(d)
        n_top == NTop(n_packages, mp, tp)
        top_packages == Head_n(sorted, n_top)
        coords == [i \in 1..Len(top_packages) |-> <<top_packages[i].x, top_packages[i].y>>]
        mst_edges == _compute_mst(coords)
    IN IF InsufficientPackages(n_packages, mp)
          \/ InsufficientPackages(Len(top_packages), mp)
       THEN [cluster_id |-> cluster_id, cluster_data |-> cluster_data,
             n_top |-> n_top, top_packages |-> <<>>, edges |-> <<>>]
       ELSE [cluster_id |-> cluster_id, cluster_data |-> cluster_data,
             n_top |-> n_top, top_packages |-> top_packages,
             edges |-> [k \in 1..Len(mst_edges) |->
                          MakeEdge(cluster_id, top_packages, mst_edges[k])]]

\* the locals of _generate_cluster_constellation(df, cluster_id) at its return
ClusterCall(d, cluster_id, mp, tp, sorted) ==
    LET cluster_data == _get_cluster_data(d, cluster_id)
        n_packages == Len(cluster_data)
        n_top == NTop(n_packages, mp, tp)
        top_packages == Head_n(sorted, n_top)
        coords == [i \in 1..Len(top_packages) |-> <<top_packages[i].x, top_packages[i].y>>]
        mst_edges == _compute_mst(coords)
    IN IF InsufficientPackages(n_packages, mp)
          \/ InsufficientPackages(Len(top_packages), mp)
       THEN [cluster_id |-> cluster_id, cluster_data |-> cluster_data,
             n_top |-> n_top, top_packages |-> <<>>, edges |-> <<>>]
       ELSE [cluster_id |-> cluster_id, cluster_data |-> cluster_data,
             n_top |-> n_top, top_packages |-> top_packages,
             edges |-> [k \in 1..Len(mst_edges) |->
                          MakeEdge(cluster_id, top_packages, mst_edges[k])]]

(***************************************************************************)
(* The global length filter.                                               *)
(***************************************************************************)
ColMin(d, col) == CHOOSE m \in {d[i][col] : i \in DOMAIN d} :
                    \A i \in DOMAIN d : m <= d[i][col]

ColMax(d, col) == CHOOSE m \in {d[i][col] : i \in DOMAIN d} :
                    \A i \in DOMAIN d : m >= d[i][col]

ColRangeClustered(d, col) ==
    LET c == SelectSeq(d, LAMBDA r : ~IsNoise(r.cluster_id))
    IN ColMax(c, col) - ColMin(c, col)

\* range_x = max_x - min_x over df
ColRange(d, col) == ColMax(d, col) - ColMin(d, col)

WithinCutoffReversed(edge, range_x, range_y, c) ==
    LET dx == edge.to_x - edge.from_x
        dy == edge.to_y - edge.from_y
    IN 10000 * ((dx * range_y) * (dx * range_y) + (dy * range_x) * (dy * range_x))
         >= (c * c) * ((range_x * range_x) * (range_y * range_y))

\* norm_length <= cutoff, for non-zero ranges and a cutoff c >= 0 in hundredths:
\* sqrt((dx/rx)^2 + (dy/ry)^2) <= c/100, cleared of the root and the divisions
WithinCutoff(edge, range_x, range_y, c) ==
    LET dx == edge.to_x - edge.from_x
        dy == edge.to_y - edge.from_y
    IN 10000 * ((dx * range_y) * (dx * range_y) + (dy * range_x) * (dy * range_x))
         <= (c * c) * ((range_x * range_x) * (range_y * range_y))

FilterEdges(edges, d, c) ==
    SelectSeq(edges, LAMBDA e : WithinCutoff(e, ColRange(d, "x"), ColRange(d, "y"), c))

\* pl.DataFrame(list of dicts): the columns are the keys of the dicts; an empty
\* list gives a frame without columns
DataFrame(rows) ==
    [columns |-> IF rows = <<>> THEN {} ELSE DOMAIN rows[1], rows |-> rows]

NoFrame == [columns |-> {}, rows |-> <<>>]

(***************************************************************************)
(* Inputs.                                                                 *)
(***************************************************************************)
Points == (0..MaxX) \X Ys

DownloadValues == {Null} \cup (0..MaxDownloads)

MakeRow(i, p, cid, w) ==
    [name |-> PackageNames[i], x |-> p[1], y |-> p[2], cluster_id |-> cid,
     weekly_downloads |-> w]

\* cluster patterns of the geometry family, with the min_packages that makes
\* the first cluster a processed one
GeomPatterns ==
    {<<<<0, 0, 0, 0>>, 3>>, <<<<0, 0, 0, -1>>, 3>>, <<<<0, 0, -1, -1>>, 2>>,
     <<<<0, 0, 1, -1>>, 2>>, <<<<0, 0, 1, 1>>, 2>>}

\* fixed coordinates of the selection family
Layout == <<<<0, 0>>, <<1, 0>>, <<0, 1>>, <<MaxX, 1>>>>

\* every coordinate assignment, a few cluster shapes, distinct download counts
InitGeom ==
    /\ \E pts \in [1..NumRows -> Points], pat \in GeomPatterns, kind \in {"str", "int"} :
         /\ df = [i \in 1..NumRows |->
                    MakeRow(i, pts[i], [t |-> kind, v |-> pat[1][i]], NumRows - i)]
         /\ min_packages = pat[2]
    /\ top_percent = 100
    /\ cutoff_length_frac \in Cutoffs

\* fixed coordinates, every assignment of cluster ids and download counts
InitSel ==
    /\ \E cids \in [1..NumRows -> ClusterIdValues("str")],
          w \in [1..NumRows -> DownloadValues] :
         df = [i \in 1..NumRows |-> MakeRow(i, Layout[i], cids[i], w[i])]
    /\ \E par \in SelParams :
         /\ min_packages = par[1]
         /\ top_percent = par[2]
    /\ cutoff_length_frac = 1000

\* a component that is not running
ConstellationIdle ==
    /\ top_percent = 0
    /\ min_packages = 0
    /\ cutoff_length_frac = 0
    /\ pc = "idle"
    /\ cluster_ids = <<>>
    /\ all_edges = <<>>
    /\ calls = <<>>
    /\ result = NoFrame

MetaIdle ==
    /\ meta_pc = "idle"
    /\ meta_ids = <<>>
    /\ metadata_rows = <<>>
    /\ metadata = NoFrame

LabelIdle ==
    /\ label_pc = "idle"
    /\ label_ids = <<>>
    /\ label_rows = <<>>
    /\ label_calls = <<>>
    /\ labels = NoFrame

PromptIdle ==
    /\ prompt_pc = "idle"
    /\ prompt_cluster = <<>>
    /\ packages_info = 0
    /\ trimmed_info = 0

IdsIdle ==
    /\ ids_pc = "idle"
    /\ ids_df = <<>>
    /\ ids_labels = <<>>
    /\ ids_result = <<>>

CoordsIdle ==
    /\ scale_pc = "idle"
    /\ scale_coords = <<>>
    /\ coords_in = <<>>
    /\ locals = <<>>
    /\ returned = <<>>

MainIdle ==
    /\ main_pc = "idle"
    /\ data_folder = {}
    /\ overwrite_download = FALSE
    /\ completed = {}
    /\ reads = <<>>

JsonIdle ==
    /\ json_pc = "idle"
    /\ df_packages = <<>>
    /\ df_constellations = <<>>
    /\ package_name_to_id = {}
    /\ packages = <<>>
    /\ constellations = <<>>
    /\ edges_seen = 0

ReduceIdle ==
    /\ reduce_pc = "idle"
    /\ n_points = 0
    /\ projection = "idle"
    /\ fit = [raised |-> FALSE, neighbors |-> 0]

DetectIdle ==
    /\ detect_pc = "idle"
    /\ description = <<>>
    /\ content_type = <<>>
    /\ detected = "idle"

CleanIdle ==
    /\ clean_pc = "idle"
    /\ clean_df = <<>>
    /\ results = <<>>
    /\ clean_log = <<>>
    /\ clean_out = <<>>

Init ==
    /\ InitGeom \/ InitSel
    /\ pc = "start"
    /\ cluster_ids = <<>>
    /\ all_edges = <<>>
    /\ calls = <<>>
    /\ result = NoFrame
    /\ MetaIdle
    /\ LabelIdle
    /\ PromptIdle
    /\ IdsIdle
    /\ CoordsIdle
    /\ MainIdle
    /\ JsonIdle
    /\ ReduceIdle
    /\ DetectIdle
    /\ CleanIdle

(***************************************************************************)
(* generate_constellations.                                                *)
(***************************************************************************)
Inputs == <<df, top_percent, min_packages, cutoff_length_frac>>

\* cluster_ids = self._get_unique_cluster_ids(df); all_edges = []
GetUniqueClusterIds ==
    /\ pc = "start"
    /\ cluster_ids' = _get_unique_cluster_ids(df)
    /\ pc' = "loop"
    /\ UNCHANGED <<Inputs, all_edges, calls, result>>
    /\ UNCHANGED nonConstellationVars

\* one iteration of `for cluster_id in cluster_ids`
GenerateClusterConstellation ==
    /\ pc = "loop"
    /\ cluster_ids # <<>>
    /\ \E sorted \in SortDescending(_get_cluster_data(df, Head(cluster_ids))) :
         LET call == ClusterCall(df, Head(cluster_ids), min_packages, top_percent, sorted)
         IN /\ all_edges' = all_edges \o call.edges
            /\ calls' = Append(calls, call)
    /\ cluster_ids' = Tail(cluster_ids)
    /\ UNCHANGED <<Inputs, pc, result>>
    /\ UNCHANGED nonConstellationVars

\* if not all_edges: return pl.DataFrame(all_edges)
ReturnEmpty ==
    /\ pc = "loop"
    /\ cluster_ids = <<>>
    /\ all_edges = <<>>
    /\ result' = DataFrame(all_edges)
    /\ pc' = "done"
    /\ UNCHANGED <<Inputs, cluster_ids, all_edges, calls>>
    /\ UNCHANGED nonConstellationVars

\* the filter loop and return pl.DataFrame(filtered_edges); a zero range makes
\* the first division raise ZeroDivisionError, which leaves the function
FilterAndReturn ==
    /\ pc = "loop"
    /\ cluster_ids = <<>>
    /\ all_edges # <<>>
    /\ IF ColRange(df, "x") = 0 \/ ColRange(df, "y") = 0
       THEN /\ pc' = "error"
            /\ UNCHANGED result
       ELSE /\ result' = DataFrame(FilterEdges(all_edges, df, cutoff_length_frac))
            /\ pc' = "done"
    /\ UNCHANGED <<Inputs, cluster_ids, all_edges, calls>>
    /\ UNCHANGED nonConstellationVars

Next ==
    \/ GetUniqueClusterIds
    \/ GenerateClusterConstellation
    \/ ReturnEmpty
    \/ FilterAndReturn

Spec == Init /\ [][Next]_vars

(***************************************************************************)
(* Properties.                                                             *)
(***************************************************************************)
TypeOK ==
    /\ pc \in {"idle", "start", "loop", "done", "error"}
    /\ Len(df) = NumRows
    /\ \A i, j \in 1..NumRows : i # j => df[i].name # df[j].name

\* every edge built so far or returned
EdgeSet == Range(all_edges) \cup Range(result.rows)

Members(cid) == {r \in Range(df) : r.cluster_id = cid}

Processed == {c \in Range(calls) : c.top_packages # <<>>}

\* C1: no edge carries the noise cluster id ("-1" or -1), and no package of
\* the noise cluster is an endpoint of an edge.
C1_NoNoiseInEdges ==
    \A e \in EdgeSet :
        /\ e.cluster_id.v # -1
        /\ \A r \in Range(df) :
             r.name \in {e.from_package, e.to_package} => r.cluster_id.v # -1

C1_Witness ==
    /\ pc = "done"
    /\ result.rows # <<>>
    /\ Cardinality({r \in Range(df) : r.cluster_id.v = -1}) >= min_packages

(***************************************************************************)
(* Graphs over the selected packages of one call: nodes are package names, *)
(* an edge is the set of its two endpoints.                                *)
(***************************************************************************)
Nodes(c) == {c.top_packages[i].name : i \in DOMAIN c.top_packages}

Links(c) == {{e.from_package, e.to_package} : e \in Range(c.edges)}

RECURSIVE Reach(_, _)
Reach(S, L) ==
    LET T == S \cup {n \in UNION L : \E l \in L : n \in l /\ l \cap S # {}}
    IN IF T = S THEN S ELSE Reach(T, L)

ConnectedOver(N, L) ==
    N = {} \/ \E n \in N : N \subseteq Reach({n}, L)

IsSpanningTree(N, L) ==
    /\ \A l \in L : l \subseteq N /\ Cardinality(l) = 2
    /\ ConnectedOver(N, L)
    /\ \A l \in L : ~ConnectedOver(N, L \ {l})

\* C2: the pre-filter edges of a processed cluster with k selected packages
\* number k - 1 and form a spanning tree over them, for any coordinates.
C2_SpanningTree ==
    \A c \in Processed :
        /\ Len(c.edges) = Len(c.top_packages) - 1
        /\ IsSpanningTree(Nodes(c), Links(c))

PointOf(c, name) ==
    LET r == CHOOSE r \in Range(c.top_packages) : r.name = name
    IN <<r.x, r.y>>

LinkLen2(c, l) ==
    LET a == CHOOSE n \in l : TRUE
        b == CHOOSE n \in l : n # a
        p == PointOf(c, a)
        q == PointOf(c, b)
    IN (p[1] - q[1]) * (p[1] - q[1]) + (p[2] - q[2]) * (p[2] - q[2])

AllLinks(c) == {l \in SUBSET Nodes(c) : Cardinality(l) = 2}

\* C3: no spanning tree over the selected packages is shorter than the edge
\* set of the cluster.  Were one shorter, some pair l outside the edge set
\* would be closer together than the endpoints of an edge m of the set that it
\* can replace (exchanging m for l leaves a spanning tree, of smaller total
\* length); and a spanning tree without such a pair is a minimum one.  The
\* comparison of the two distances is made on their squares.
C3_MinimumSpanningTree ==
    \A c \in Processed :
        \A l \in AllLinks(c) \ Links(c) :
            \A m \in Links(c) :
                IsSpanningTree(Nodes(c), (Links(c) \ {m}) \cup {l})
                    => LinkLen2(c, m) <= LinkLen2(c, l)

\* C4: a non-noise cluster with fewer than min_packages members contributes
\* no edge, whatever top_percent and cutoff_length_frac are.
C4_SmallClusterNoEdges ==
    \A r \in Range(df) :
        Cardinality(Members(r.cluster_id)) < min_packages =>
            \A e \in EdgeSet : e.cluster_id # r.cluster_id

C4_Witness ==
    /\ pc = "done"
    /\ result.rows # <<>>
    /\ top_percent = 100
    /\ \E c \in Range(calls) :
         /\ c.cluster_data # <<>>
         /\ Len(c.cluster_data) < min_packages

\* weekly_downloads with an absent value read as 0
Downloads(r) == IF r.weekly_downloads = Null THEN 0 ELSE r.weekly_downloads

\* floor(n * top_percent)
FloorShare(n) == CHOOSE q \in 0..n : 100 * q <= n * top_percent /\ n * top_percent < 100 * (q + 1)

\* C5: for a cluster of n >= min_packages members exactly
\* max(min_packages, floor(n * top_percent)) packages are selected, and no
\* unselected member has strictly more weekly downloads than a selected one.
C5_TopSelection ==
    \A c \in Range(calls) :
        Len(c.cluster_data) >= min_packages =>
            /\ Len(c.top_packages) = Max2(min_packages, FloorShare(Len(c.cluster_data)))
            /\ \A s \in Range(c.top_packages) :
                 \A u \in Range(c.cluster_data) \ Range(c.top_packages) :
                     ~(Downloads(u) > Downloads(s))

\* The selection of C5 on clusters whose members all have a download count.
TopSelectionAllPresent ==
    \A c \in Range(calls) :
        (/\ Len(c.cluster_data) >= min_packages
         /\ \A r \in Range(c.cluster_data) : r.weekly_downloads # Null) =>
            /\ Len(c.top_packages) = Max2(min_packages, FloorShare(Len(c.cluster_data)))
            /\ \A s \in Range(c.top_packages) :
                 \A u \in Range(c.cluster_data) \ Range(c.top_packages) :
                     u.weekly_downloads <= s.weekly_downloads

\* max - min of a column over all rows of the input
WholeRange(col) ==
    LET V == {df[i][col] : i \in DOMAIN df}
    IN CHOOSE w \in 0..(MaxX + 1) :
         /\ \E a, b \in V : w = a - b
         /\ \A a, b \in V : a - b <= w

\* C6: an edge is kept iff sqrt((dx/range_x)^2 + (dy/range_y)^2) is at most
\* cutoff_length_frac, the ranges being those of the whole input (noise rows
\* and rows of skipped clusters included).  With positive ranges the
\* inequality is the one below, squared and multiplied out.
C6_GlobalFilter ==
    (pc = "done" /\ all_edges # <<>>) =>
        /\ Range(result.rows) \subseteq Range(all_edges)
        /\ \A e \in Range(all_edges) :
             LET dx == e.to_x - e.from_x
                 dy == e.to_y - e.from_y
                 rx == WholeRange("x")
                 ry == WholeRange("y")
             IN e \in Range(result.rows) <=>
                  10000 * (dx * dx * ry * ry + dy * dy * rx * rx)
                    <= cutoff_length_frac * cutoff_length_frac * rx * rx * ry * ry

ClusteredRows == {r \in Range(df) : r.cluster_id.v # -1 /\ \E e \in Range(all_edges) : e.cluster_id = r.cluster_id}

\* some edge kept, some dropped, and a row outside the processed clusters
\* widens the range the lengths are normalised by
C6_Witness ==
    /\ pc = "done"
    /\ result.rows # <<>>
    /\ Len(result.rows) < Len(all_edges)
    /\ \E r \in Range(df) \ ClusteredRows : \A q \in ClusteredRows : r.x > q.x

\* C7: for the same pre-filter edges, the edges returned with a cutoff are
\* among those returned with any larger cutoff and include those returned
\* with any smaller one.
C7_CutoffMonotone ==
    pc = "done" =>
        \A c \in Cutoffs :
            /\ c >= cutoff_length_frac =>
                 Range(result.rows) \subseteq Range(FilterEdges(all_edges, df, c))
            /\ c <= cutoff_length_frac =>
                 Range(FilterEdges(all_edges, df, c)) \subseteq Range(result.rows)

C7_Witness ==
    /\ pc = "done"
    /\ result.rows # <<>>
    /\ \E c \in Cutoffs :
         /\ c > cutoff_length_frac
         /\ Len(FilterEdges(all_edges, df, c)) > Len(result.rows)

ZeroRange ==
    \/ \A r, q \in Range(df) : r.x = q.x
    \/ \A r, q \in Range(df) : r.y = q.y

\* C8: with a coordinate range of 0 and at least one MST edge the function
\* still returns a table; no error reaches the caller.
C8_ZeroRangeReturns ==
    (ZeroRange /\ all_edges # <<>> /\ pc \in {"done", "error"}) => pc = "done"

\* C9: the endpoints of an edge are two distinct packages that both carry the
\* cluster id recorded on the edge.
C9_SameCluster ==
    \A e \in EdgeSet :
        /\ e.from_package # e.to_package
        /\ \E r \in Range(df) : r.name = e.from_package /\ r.cluster_id = e.cluster_id
        /\ \E r \in Range(df) : r.name = e.to_package /\ r.cluster_id = e.cluster_id

C9_Witness ==
    /\ pc = "done"
    /\ \E e, f \in Range(result.rows) : e.cluster_id # f.cluster_id

EdgeColumns ==
    {"cluster_id", "from_package", "to_package", "from_x", "from_y", "to_x", "to_y"}

\* C10: the returned table has exactly the seven edge columns for every
\* input, also when it has no rows.
C10_Columns ==
    pc = "done" => result.columns = EdgeColumns

(***************************************************************************)
(* ClusterMetadataGenerator (src/pyatlas/clustering/metadata.py; the same  *)
(* class is defined in labeling.py, from where the script                  *)
(* calculate_cluster_metadata.py imports it).  A mean is kept as the exact *)
(* fraction num / den of the column sum and the row count.                 *)
(***************************************************************************)
MetaIsNoiseBoth(cid) == cid.v = -1

\* cid != "-1": an integer -1 read back from the CSV is not equal to "-1"
MetaIsNoise(cid) == cid = StrId(-1)

\* sorted([cid for cid in cluster_ids if cid != "-1"])
Meta_get_unique_cluster_ids(d) ==
    SortedIds({cid \in {d[i].cluster_id : i \in DOMAIN d} : ~MetaIsNoise(cid)})

\* df.filter(pl.col(cluster_id_column) == cluster_id)
Meta_get_cluster_data(d, cluster_id) ==
    SelectSeq(d, LAMBDA r : r.cluster_id = cluster_id)

\* Series.sum(): null entries are skipped, an empty or all-null column sums to 0
RECURSIVE ColSum(_, _)
ColSum(d, col) ==
    IF d = <<>> THEN 0
    ELSE (IF Head(d)[col] = Null THEN 0 ELSE Head(d)[col]) + ColSum(Tail(d), col)

RECURSIVE ColSumRaw(_, _)
ColSumRaw(d, col) ==
    IF d = <<>> THEN 0 ELSE Head(d)[col] + ColSumRaw(Tail(d), col)

ColSumOnly(d, col) == [num |-> ColSum(d, col), den |-> 1]

\* Series.mean() of a column without nulls
ColMean(d, col) == [num |-> ColSum(d, col), den |-> Len(d)]

\* centroid_x = cluster_data[x_column].mean(); centroid_y likewise
_calculate_centroid(d, cluster_id) ==
    LET cluster_data == Meta_get_cluster_data(d, cluster_id)
    IN <<ColMean(cluster_data, "x"), ColMean(cluster_data, "y")>>

_calculate_total_weekly_downloads_raw(d, cluster_id) ==
    ColSumRaw(Meta_get_cluster_data(d, cluster_id), "weekly_downloads")

\* total = cluster_data[downloads_column].sum()
\* return int(total) if total is not None else 0
_calculate_total_weekly_downloads(d, cluster_id) ==
    ColSum(Meta_get_cluster_data(d, cluster_id), "weekly_downloads")

_calculate_bounds_swapped(d, cluster_id) ==
    LET cluster_data == Meta_get_cluster_data(d, cluster_id)
    IN
    [min_x |-> ColMax(cluster_data, "x"), max_x |-> ColMin(cluster_data, "x"),
     min_y |-> ColMax(cluster_data, "y"), max_y |-> ColMin(cluster_data, "y")]

\* min_x, max_x, min_y, max_y of the cluster's rows
_calculate_bounds(d, cluster_id) ==
    LET cluster_data == Meta_get_cluster_data(d, cluster_id)
    IN
    [min_x |-> ColMin(cluster_data, "x"), max_x |-> ColMax(cluster_data, "x"),
     min_y |-> ColMin(cluster_data, "y"), max_y |-> ColMax(cluster_data, "y")]

\* the record appended for one cluster id (loop body and noise branch build
\* the same dictionary)
MetadataRow(d, cluster_id) ==
    LET centroid == _calculate_centroid(d, cluster_id)
        bounds == _calculate_bounds(d, cluster_id)
    IN [cluster_id |-> cluster_id,
        centroid_x |-> centroid[1],
        centroid_y |-> centroid[2],
        total_weekly_downloads |-> _calculate_total_weekly_downloads(d, cluster_id),
        min_x |-> bounds.min_x,
        max_x |-> bounds.max_x,
        min_y |-> bounds.min_y,
        max_y |-> bounds.max_y]

\* "-1" in df[cluster_id_column].unique().to_list()
HasNoiseCluster(d) == StrId(-1) \in {d[i].cluster_id : i \in DOMAIN d}

\* cluster value patterns of the geometry family of the metadata generator
MetaPatterns ==
    {<<0, 0, 0, 0>>, <<0, 0, 0, -1>>, <<0, 0, 1, 1>>, <<0, 1, -1, -1>>}

\* every coordinate assignment, a few cluster shapes, distinct download counts
InitMetaGeom ==
    \E pts \in [1..NumRows -> Points], pat \in MetaPatterns, kind \in {"str", "int"} :
        df = [i \in 1..NumRows |->
                MakeRow(i, pts[i], [t |-> kind, v |-> pat[i]], NumRows - i)]

\* fixed coordinates, every assignment of cluster ids and download counts, for
\* a Utf8 id column and for the Int64 column of a CSV read back
InitMetaIds ==
    \E kind \in {"str", "int"} :
      \E cids \in [1..NumRows -> ClusterIdValues(kind)],
         w \in [1..NumRows -> DownloadValues] :
        df = [i \in 1..NumRows |-> MakeRow(i, Layout[i], cids[i], w[i])]

InitMeta ==
    /\ InitMetaGeom \/ InitMetaIds
    /\ ConstellationIdle
    /\ LabelIdle
    /\ PromptIdle
    /\ IdsIdle
    /\ CoordsIdle
    /\ MainIdle
    /\ JsonIdle
    /\ ReduceIdle
    /\ DetectIdle
    /\ CleanIdle
    /\ meta_pc = "start"
    /\ meta_ids = <<>>
    /\ metadata_rows = <<>>
    /\ metadata = NoFrame

\* unique_cluster_ids = self._get_unique_cluster_ids(...); metadata_rows = []
MetaGetUniqueClusterIds ==
    /\ meta_pc = "start"
    /\ meta_ids' = Meta_get_unique_cluster_ids(df)
    /\ meta_pc' = "loop"
    /\ UNCHANGED <<df, metadata_rows, metadata>>
    /\ UNCHANGED nonMetaVars

\* one iteration of `for cluster_id in unique_cluster_ids`
MetaAppendCluster ==
    /\ meta_pc = "loop"
    /\ meta_ids # <<>>
    /\ metadata_rows' = Append(metadata_rows, MetadataRow(df, Head(meta_ids)))
    /\ meta_ids' = Tail(meta_ids)
    /\ UNCHANGED <<df, meta_pc, metadata>>
    /\ UNCHANGED nonMetaVars

\* if "-1" in ...: append the record of the noise cluster
MetaAppendNoise ==
    /\ meta_pc = "loop"
    /\ meta_ids = <<>>
    /\ metadata_rows' = IF HasNoiseCluster(df)
                        THEN Append(metadata_rows, MetadataRow(df, StrId(-1)))
                        ELSE metadata_rows
    /\ meta_pc' = "noise_done"
    /\ UNCHANGED <<df, meta_ids, metadata>>
    /\ UNCHANGED nonMetaVars

\* return pl.DataFrame(metadata_rows)
MetaReturn ==
    /\ meta_pc = "noise_done"
    /\ metadata' = DataFrame(metadata_rows)
    /\ meta_pc' = "done"
    /\ UNCHANGED <<df, meta_ids, metadata_rows>>
    /\ UNCHANGED nonMetaVars

NextMeta ==
    \/ MetaGetUniqueClusterIds
    \/ MetaAppendCluster
    \/ MetaAppendNoise
    \/ MetaReturn

SpecMeta == InitMeta /\ [][NextMeta]_vars

\* the cluster ids present in the input frame
PresentIds == {df[i].cluster_id : i \in DOMAIN df}

RECURSIVE SetSum(_, _)
\* sum of f over the rows of a set, absent values counted as 0
SetSum(S, col) ==
    IF S = {} THEN 0
    ELSE LET r == CHOOSE q \in S : TRUE
         IN (IF r[col] = Null THEN 0 ELSE r[col]) + SetSum(S \ {r}, col)

\* C11: generate_cluster_metadata returns exactly one record per distinct
\* cluster id present in the input, the noise cluster included, and none for
\* an id without members, for a string id column and for an integer one.
C11_OneRecordPerCluster ==
    meta_pc = "done" =>
        /\ {r.cluster_id : r \in Range(metadata.rows)} = PresentIds
        /\ Len(metadata.rows) = Cardinality(PresentIds)

\* an integer id column with noise rows and two clusters has been processed
C11_Witness ==
    /\ meta_pc = "done"
    /\ PresentIds = {IntId(-1), IntId(0), IntId(1)}
    /\ Len(metadata.rows) = 3

\* C12: the centroid of every record is the arithmetic mean of x and of y
\* over exactly the rows that carry the record's cluster id.
C12_Centroid ==
    \A i \in DOMAIN metadata_rows :
        LET rec == metadata_rows[i]
            M == Members(rec.cluster_id)
        IN /\ rec.centroid_x.den = Cardinality(M)
           /\ rec.centroid_y.den = Cardinality(M)
           /\ rec.centroid_x.num = SetSum(M, "x")
           /\ rec.centroid_y.num = SetSum(M, "y")

\* a cluster of three of the four rows whose mean x is not a whole number
C12_Witness ==
    /\ meta_pc = "done"
    /\ \E i \in DOMAIN metadata.rows :
         /\ metadata.rows[i].centroid_x.den = 3
         /\ metadata.rows[i].centroid_x.num % 3 # 0
         /\ metadata.rows[i].centroid_y.num % 3 # 0
    /\ Len(metadata.rows) = 2

\* C13: the bounds of every record are the componentwise minimum and maximum
\* over the cluster's members only; min <= max, and every member and the
\* centroid lie inside the box.
C13_Bounds ==
    \A i \in DOMAIN metadata_rows :
        LET rec == metadata_rows[i]
            M == Members(rec.cluster_id)
            n == rec.centroid_x.den
        IN /\ rec.min_x \in {r.x : r \in M} /\ rec.max_x \in {r.x : r \in M}
           /\ rec.min_y \in {r.y : r \in M} /\ rec.max_y \in {r.y : r \in M}
           /\ rec.min_x <= rec.max_x /\ rec.min_y <= rec.max_y
           /\ \A r \in M : /\ rec.min_x <= r.x /\ r.x <= rec.max_x
                           /\ rec.min_y <= r.y /\ r.y <= rec.max_y
           /\ rec.min_x * n <= rec.centroid_x.num
           /\ rec.centroid_x.num <= rec.max_x * n
           /\ rec.min_y * n <= rec.centroid_y.num
           /\ rec.centroid_y.num <= rec.max_y * n

\* a cluster whose box is smaller than the box of the whole data set
C13_Witness ==
    /\ meta_pc = "done"
    /\ \E i \in DOMAIN metadata.rows :
         /\ metadata.rows[i].min_x < metadata.rows[i].max_x
         /\ metadata.rows[i].min_y < metadata.rows[i].max_y
         /\ \/ ColMin(df, "x") < metadata.rows[i].min_x
            \/ metadata.rows[i].max_x < ColMax(df, "x")

\* C14: total_weekly_downloads of every record is the sum over the cluster's
\* members with an absent value counted as 0, and the totals of all records
\* add up to the sum over the whole data set.
C14_TotalDownloads ==
    /\ \A i \in DOMAIN metadata_rows :
         metadata_rows[i].total_weekly_downloads =
             SetSum(Members(metadata_rows[i].cluster_id), "weekly_downloads")
    /\ meta_pc = "done" =>
         SetSum(Range(metadata.rows), "total_weekly_downloads") =
             SetSum(Range(df), "weekly_downloads")

\* a cluster with an absent and a positive download count, next to another one
C14_Witness ==
    /\ meta_pc = "done"
    /\ Len(metadata.rows) >= 2
    /\ \E i \in DOMAIN metadata.rows :
         /\ metadata.rows[i].total_weekly_downloads > 0
         /\ \E r \in Members(metadata.rows[i].cluster_id) : r.weekly_downloads = Null

(***************************************************************************)
(* ClusterLabeler.generate_cluster_labels (src/pyatlas/clustering/         *)
(* labeling.py).  A text is a sequence of characters.  The external        *)
(* labeling service is the environment: each call either raises or answers *)
(* with an output_text that is None, empty, blank or a padded word.        *)
(***************************************************************************)
OutputTexts == {<<>>, <<" ">>, <<"w">>, <<" ", "w", " ">>}

\* what client.responses.create and response.output_text can do
CallOutcomes ==
    {[kind |-> "raise"], [kind |-> "none"]} \cup
    {[kind |-> "text", text |-> t] : t \in OutputTexts}

RECURSIVE LStrip(_)
LStrip(s) == IF s # <<>> /\ Head(s) = " " THEN LStrip(Tail(s)) ELSE s

RECURSIVE RStrip(_)
RStrip(s) ==
    IF s # <<>> /\ s[Len(s)] = " " THEN RStrip(SubSeq(s, 1, Len(s) - 1)) ELSE s

\* str.strip()
Strip(s) == RStrip(LStrip(s))

\* the fixed label of the noise cluster
NotClustered == <<"Not clustered">>

\* f"Cluster {cluster_id}"
Placeholder(cluster_id) == <<"Cluster ", cluster_id.v>>

\* sorted(cluster_ids): the noise cluster is kept
Label_get_unique_cluster_ids(d) ==
    SortedIds({d[i].cluster_id : i \in DOMAIN d})

_generate_label_for_cluster_uncaught(cluster_id, outcome) ==
    IF cluster_id = StrId(-1)
    THEN [raised |-> FALSE, called |-> FALSE, label |-> NotClustered]
    ELSE IF outcome.kind = "raise"
    THEN [raised |-> TRUE, called |-> TRUE, label |-> <<>>]
    ELSE IF outcome.kind = "text" /\ outcome.text # <<>>
    THEN [raised |-> FALSE, called |-> TRUE, label |-> Strip(outcome.text)]
    ELSE [raised |-> FALSE, called |-> TRUE, label |-> Placeholder(cluster_id)]

\* the label of one cluster for a given behaviour of the external call:
\* raised tells whether an exception leaves the function, called whether the
\* service was called
_generate_label_for_cluster(cluster_id, outcome) ==
    IF cluster_id = StrId(-1)
    THEN [raised |-> FALSE, called |-> FALSE, label |-> NotClustered]
    ELSE IF outcome.kind = "raise"
    THEN [raised |-> FALSE, called |-> TRUE, label |-> Placeholder(cluster_id)]
    ELSE IF outcome.kind = "text" /\ outcome.text # <<>>
    THEN [raised |-> FALSE, called |-> TRUE, label |-> Strip(outcome.text)]
    ELSE [raised |-> FALSE, called |-> TRUE, label |-> Placeholder(cluster_id)]

\* every assignment of cluster ids, for a Utf8 id column and for the Int64
\* column of a CSV read back
InitLabel ==
    /\ \E kind \in {"str", "int"} :
         \E cids \in [1..NumRows -> ClusterIdValues(kind)] :
           df = [i \in 1..NumRows |-> MakeRow(i, Layout[i], cids[i], Null)]
    /\ ConstellationIdle
    /\ MetaIdle
    /\ PromptIdle
    /\ IdsIdle
    /\ CoordsIdle
    /\ MainIdle
    /\ JsonIdle
    /\ ReduceIdle
    /\ DetectIdle
    /\ CleanIdle
    /\ label_pc = "start"
    /\ label_ids = <<>>
    /\ label_rows = <<>>
    /\ label_calls = <<>>
    /\ labels = NoFrame

\* cluster_ids = self._get_unique_cluster_ids(df); label_rows = []
LabelGetUniqueClusterIds ==
    /\ label_pc = "start"
    /\ label_ids' = Label_get_unique_cluster_ids(df)
    /\ label_pc' = "loop"
    /\ UNCHANGED <<df, label_rows, label_calls, labels>>
    /\ UNCHANGED nonLabelVars

\* one iteration of `for cluster_id in cluster_ids`; an exception that leaves
\* _generate_label_for_cluster leaves generate_cluster_labels as well
LabelCluster ==
    /\ label_pc = "loop"
    /\ label_ids # <<>>
    /\ \E outcome \in CallOutcomes :
         LET r == _generate_label_for_cluster(Head(label_ids), outcome)
         IN /\ label_calls' = IF r.called
                              THEN Append(label_calls,
                                          [cluster_id |-> Head(label_ids),
                                           outcome |-> outcome])
                              ELSE label_calls
            /\ IF r.raised
               THEN /\ label_pc' = "error"
                    /\ UNCHANGED <<label_ids, label_rows>>
               ELSE /\ label_rows' = Append(label_rows,
                                            [cluster_id |-> Head(label_ids),
                                             cluster_label |-> r.label])
                    /\ label_ids' = Tail(label_ids)
                    /\ UNCHANGED label_pc
    /\ UNCHANGED <<df, labels>>
    /\ UNCHANGED nonLabelVars

\* return pl.DataFrame(label_rows)
LabelReturn ==
    /\ label_pc = "loop"
    /\ label_ids = <<>>
    /\ labels' = DataFrame(label_rows)
    /\ label_pc' = "done"
    /\ UNCHANGED <<df, label_ids, label_rows, label_calls>>
    /\ UNCHANGED nonLabelVars

NextLabel ==
    \/ LabelGetUniqueClusterIds
    \/ LabelCluster
    \/ LabelReturn

SpecLabel == InitLabel /\ [][NextLabel]_vars

\* the call failed: it raised, or its output_text is None or empty
FailedCall(c) == c.outcome.kind \in {"raise", "none"} \/ c.outcome = [kind |-> "text", text |-> <<>>]

\* C15: for any pattern of failures of the external call the function returns
\* exactly one (cluster_id, cluster_label) row per distinct cluster id; a
\* cluster whose call raises or returns empty text is labelled 'Cluster <id>',
\* and the clusters after it are still processed.
C15_OneLabelPerCluster ==
    /\ label_pc # "error"
    /\ \A c \in Range(label_calls) :
         FailedCall(c) =>
            [cluster_id |-> c.cluster_id, cluster_label |-> Placeholder(c.cluster_id)]
                \in Range(label_rows)
    /\ label_pc = "done" =>
         /\ {r.cluster_id : r \in Range(labels.rows)} = PresentIds
         /\ Len(labels.rows) = Cardinality(PresentIds)
         /\ labels.columns = {"cluster_id", "cluster_label"}
         /\ {c.cluster_id : c \in Range(label_calls)} = PresentIds \ {StrId(-1)}

\* a Utf8 id column with noise rows: the noise cluster got its fixed label
\* without a call, the call of the next cluster raised, and the cluster after
\* it still got the label the service gave
C15_Witness ==
    /\ label_pc = "done"
    /\ Len(label_calls) = 2
    /\ label_calls[1].outcome.kind = "raise"
    /\ label_calls[2].outcome = [kind |-> "text", text |-> <<" ", "w", " ">>]
    /\ Len(labels.rows) = 3
    /\ labels.rows[1] = [cluster_id |-> StrId(-1), cluster_label |-> NotClustered]
    /\ labels.rows[2].cluster_label = Placeholder(StrId(0))
    /\ labels.rows[3].cluster_label = <<"w">>

(***************************************************************************)
(* ClusterLabeler._create_prompt (src/pyatlas/clustering/labeling.py).     *)
(* The claim about the prompt concerns character counts only, so a string  *)
(* is modelled by its length: a slice s[:k] has min(len(s), k) characters  *)
(* and a concatenation the sum of the lengths of its parts.                *)
(***************************************************************************)
max_total_chars == 256 * 64

\* lengths of package names
NameLens == {1, 30}

\* summaries: None, or a string of the given length
Summaries ==
    {[kind |-> "none"]} \cup
    {[kind |-> "str", len |-> k] : k \in {0, 1, 255, 256, 257, 1000}}

Min2(a, b) == IF a <= b THEN a ELSE b

\* "" if not summary or not isinstance(summary, str)
\* else summary[: self.max_chars_per_summary]
_trim_summary(summary) ==
    IF summary.kind # "str" \/ summary.len = 0
    THEN 0
    ELSE Min2(summary.len, max_chars_per_summary)

\* f"- {name}: {summary}"
LineLen(row) == 2 + row.name_len + 2 + _trim_summary(row.summary)

RECURSIVE JoinLen(_)
\* "\n".join(lines)
JoinLen(lines) ==
    IF lines = <<>> THEN 0
    ELSE IF Len(lines) = 1 THEN Head(lines)
    ELSE Head(lines) + 1 + JoinLen(Tail(lines))

_format_packages_info(cluster_data) ==
    JoinLen([i \in DOMAIN cluster_data |-> LineLen(cluster_data[i])])

\* text if len(text) <= self.max_total_chars
\* else text[: self.max_total_chars] + "..."
_trim_to_max_chars(text_len) ==
    IF text_len <= max_total_chars
    THEN text_len
    ELSE Min2(text_len, max_total_chars) + 3

\* a cluster of n packages with names and summaries of one size each
InitPrompt ==
    /\ \E n \in 1..MaxPackages, name_len \in NameLens, summary \in Summaries :
         prompt_cluster = [i \in 1..n |-> [name_len |-> name_len, summary |-> summary]]
    /\ prompt_pc = "start"
    /\ packages_info = 0
    /\ trimmed_info = 0
    /\ df = <<>>
    /\ ConstellationIdle
    /\ MetaIdle
    /\ LabelIdle
    /\ IdsIdle
    /\ CoordsIdle
    /\ MainIdle
    /\ JsonIdle
    /\ ReduceIdle
    /\ DetectIdle
    /\ CleanIdle

\* packages_info = self._format_packages_info(cluster_data)
FormatPackagesInfo ==
    /\ prompt_pc = "start"
    /\ packages_info' = _format_packages_info(prompt_cluster)
    /\ prompt_pc' = "formatted"
    /\ UNCHANGED <<df, prompt_cluster, trimmed_info>>
    /\ UNCHANGED nonPromptVars

\* trimmed_info = self._trim_to_max_chars(packages_info); the prompt returned
\* is a fixed instruction followed by trimmed_info
TrimToMaxChars ==
    /\ prompt_pc = "formatted"
    /\ trimmed_info' = _trim_to_max_chars(packages_info)
    /\ prompt_pc' = "done"
    /\ UNCHANGED <<df, prompt_cluster, packages_info>>
    /\ UNCHANGED nonPromptVars

NextPrompt ==
    \/ FormatPackagesInfo
    \/ TrimToMaxChars

SpecPrompt == InitPrompt /\ [][NextPrompt]_vars

\* every summary placed in the prompt has at most max_chars_per_summary
\* characters
SummariesBounded ==
    \A i \in DOMAIN prompt_cluster :
        _trim_summary(prompt_cluster[i].summary) <= max_chars_per_summary

\* C16: every summary is cut to at most max_chars_per_summary characters and
\* the package list sent for one cluster has at most max_total_chars
\* characters.
C16_PromptBounded ==
    /\ SummariesBounded
    /\ prompt_pc = "done" => trimmed_info <= max_total_chars

(***************************************************************************)
(* ClusterIdGenerator.generate_cluster_ids (src/pyatlas/clustering/        *)
(* clustering.py).  UMAP and HDBSCAN are the environment: fit_predict      *)
(* answers with one integer label per row, -1 for a noise point.           *)
(***************************************************************************)
\* the values an embedding is drawn from
EmbeddingValues == {0, 1}

\* labels fit_predict can give to the rows of a frame
Labelings(n) == [1..n -> -1..MaxClusterId]

\* DataFrame.with_columns(name = value) on one row
WithColumn(row, name, value) ==
    [c \in DOMAIN row \cup {name} |-> IF c = name THEN value ELSE row[c]]

CastKept(cid) == cid

\* pl.col("cluster_id").cast(pl.Utf8): the decimal string of the integer
CastUtf8(cid) == StrId(cid.v)

\* a frame of packages with their embeddings, as test_generate_cluster_ids
\* builds it: no cluster_id column yet
InitIds ==
    /\ \E e \in [1..NumRows -> EmbeddingValues] :
         ids_df = [i \in 1..NumRows |-> [id |-> i, embeddings |-> e[i]]]
    /\ ids_pc = "start"
    /\ ids_labels = <<>>
    /\ ids_result = <<>>
    /\ df = <<>>
    /\ ConstellationIdle
    /\ MetaIdle
    /\ LabelIdle
    /\ PromptIdle
    /\ CoordsIdle
    /\ MainIdle
    /\ JsonIdle
    /\ ReduceIdle
    /\ DetectIdle
    /\ CleanIdle

\* labels = clusterer.fit_predict(norm_data)
FitPredict ==
    /\ ids_pc = "start"
    /\ ids_labels' \in Labelings(Len(ids_df))
    /\ ids_pc' = "labelled"
    /\ UNCHANGED <<df, ids_df, ids_result>>
    /\ UNCHANGED nonIdsVars

\* df.with_columns(cluster_id=pl.Series("cluster_id", labels))
WithClusterIdColumn ==
    /\ ids_pc = "labelled"
    /\ ids_result' = [i \in DOMAIN ids_df |->
                        WithColumn(ids_df[i], "cluster_id", IntId(ids_labels[i]))]
    /\ ids_pc' = "added"
    /\ UNCHANGED <<df, ids_df, ids_labels>>
    /\ UNCHANGED nonIdsVars

\* .with_columns(pl.col("cluster_id").cast(pl.Utf8).alias("cluster_id")); return df
CastClusterIdColumn ==
    /\ ids_pc = "added"
    /\ ids_result' = [i \in DOMAIN ids_result |->
                        WithColumn(ids_result[i], "cluster_id",
                                   CastUtf8(ids_result[i].cluster_id))]
    /\ ids_pc' = "done"
    /\ UNCHANGED <<df, ids_df, ids_labels>>
    /\ UNCHANGED nonIdsVars

NextIds ==
    \/ FitPredict
    \/ WithClusterIdColumn
    \/ CastClusterIdColumn

SpecIds == InitIds /\ [][NextIds]_vars

\* C17: generate_cluster_ids returns the input rows in the same number and
\* order with every existing column unchanged, plus one cluster_id column of
\* string type that is non-null for every row; a point the clusterer marks as
\* noise gets the string "-1".
C17_ClusterIdColumn ==
    ids_pc = "done" =>
        /\ Len(ids_result) = Len(ids_df)
        /\ \A i \in DOMAIN ids_df :
             /\ DOMAIN ids_result[i] = DOMAIN ids_df[i] \cup {"cluster_id"}
             /\ \A c \in DOMAIN ids_df[i] : ids_result[i][c] = ids_df[i][c]
             /\ ids_result[i].cluster_id \in {StrId(n) : n \in -1..MaxClusterId}
             /\ ids_result[i].cluster_id = StrId(ids_labels[i])
             /\ ids_labels[i] = -1 => ids_result[i].cluster_id = StrId(-1)

\* a frame with noise points and two clusters has been returned
C17_Witness ==
    /\ ids_pc = "done"
    /\ {ids_labels[i] : i \in DOMAIN ids_labels} = {-1, 0, 1}
    /\ ids_result[1].cluster_id = StrId(-1)
    /\ ids_result[1].embeddings # ids_result[2].embeddings

(***************************************************************************)
(* ClusterCoordinatesGenerator._log_radius_scale (src/pyatlas/clustering/  *)
(* coordinates.py).  Input points lie on the integer grid.  The median of  *)
(* an even number of values is the mean of the two middle ones, so centre  *)
(* and centred points are kept doubled (in half units) and stay integers.  *)
(* The radius, its logarithm and their quotient are irrational in general; *)
(* they are kept as terms: R(q) is the radius sqrt(q) / 2 of a centred     *)
(* point whose doubled coordinates have the square sum q, Log1p(q) is      *)
(* log(1 + sqrt(q) / 2), Eps is the constant 1e-8, Quot(a, b) is a / b.    *)
(* Only the exact facts log1p(0) = 0, 0 / b = 0 for b # 0 and 0 * f = 0    *)
(* for a finite f are used; a / 0 is NaN or an infinity, written NaN.      *)
(***************************************************************************)
Zero == [term |-> "zero"]

Eps == [term |-> "eps"]

NaN == [term |-> "nan"]

R(q) == IF q = 0 THEN Zero ELSE [term |-> "r", q |-> q]

Log1p(q) == IF q = 0 THEN Zero ELSE [term |-> "log1p", q |-> q]

Quot(a, b) ==
    IF b = Zero \/ a = NaN \/ b = NaN THEN NaN
    ELSE IF a = Zero THEN Zero
    ELSE [term |-> "quot", num |-> a, den |-> b]

RECURSIVE SortedInts(_)
\* the values of a column in ascending order, duplicates kept
SortedInts(s) ==
    IF s = <<>> THEN <<>>
    ELSE LET i == CHOOSE k \in DOMAIN s : \A j \in DOMAIN s : s[k] <= s[j]
         IN <<s[i]>> \o SortedInts([k \in 1..Len(s) - 1 |-> IF k < i THEN s[k] ELSE s[k + 1]])

\* twice np.median of a column
Median2(s) ==
    LET o == SortedInts(s)
        n == Len(s)
    IN IF n % 2 = 1 THEN 2 * o[(n + 1) \div 2] ELSE o[n \div 2] + o[n \div 2 + 1]

\* center = np.median(coords, axis=0), doubled
Center2(c) == <<Median2([i \in DOMAIN c |-> c[i][1]]), Median2([i \in DOMAIN c |-> c[i][2]])>>

\* centered = coords - center, doubled
Centered2(c, center2) ==
    [i \in DOMAIN c |-> <<2 * c[i][1] - center2[1], 2 * c[i][2] - center2[2]>>]

InputAfterSubtractInPlace(c, centered) == centered

\* coords - center builds a new array: the operand keeps its value
InputAfterSubtract(c, centered) == c

\* r = np.linalg.norm(centered, axis=1), as the square sum of the doubled row
Norm2(v) == v[1] * v[1] + v[2] * v[2]

RSafeUnguarded(q) == R(q)

\* r_safe = np.where(r == 0, 1e-8, r)
RSafe(q) == IF R(q) = Zero THEN Eps ELSE R(q)

\* one row of centered * factor[:, None]
Scale(v, factor) ==
    IF factor = NaN THEN NaN
    ELSE IF factor = Zero \/ v = <<0, 0>> THEN Zero
    ELSE [term |-> "scaled", vec |-> v, factor |-> factor]

\* one row of scaled + center
Shift(offset, center2) ==
    IF offset = NaN THEN NaN ELSE [center2 |-> center2, offset |-> offset]

NoLocals == [center2 |-> <<0, 0>>, centered2 |-> <<>>, r |-> <<>>, r_safe |-> <<>>, r_log |-> <<>>]

\* the arrays the function is applied to: three or four points of the grid
InitCoords ==
    /\ \E n \in {NumRows - 1, NumRows} : scale_coords \in [1..n -> Points]
    /\ coords_in = scale_coords
    /\ scale_pc = "start"
    /\ locals = NoLocals
    /\ returned = <<>>
    /\ df = <<>>
    /\ ConstellationIdle
    /\ MetaIdle
    /\ LabelIdle
    /\ PromptIdle
    /\ IdsIdle
    /\ MainIdle
    /\ JsonIdle
    /\ ReduceIdle
    /\ DetectIdle
    /\ CleanIdle

\* center = np.median(coords, axis=0); centered = coords - center
CenterCoords ==
    /\ scale_pc = "start"
    /\ LET center2 == Center2(scale_coords)
           centered2 == Centered2(scale_coords, center2)
       IN /\ locals' = [NoLocals EXCEPT !.center2 = center2, !.centered2 = centered2]
          /\ scale_coords' = InputAfterSubtract(scale_coords, centered2)
    /\ scale_pc' = "centered"
    /\ UNCHANGED <<df, coords_in, returned>>
    /\ UNCHANGED nonCoordsVars

\* r = np.linalg.norm(centered, axis=1); r_safe = np.where(r == 0, 1e-8, r)
\* r_log = np.log1p(r)
Radii ==
    /\ scale_pc = "centered"
    /\ locals' = [locals EXCEPT
                    !.r = [i \in DOMAIN locals.centered2 |-> R(Norm2(locals.centered2[i]))],
                    !.r_safe = [i \in DOMAIN locals.centered2 |-> RSafe(Norm2(locals.centered2[i]))],
                    !.r_log = [i \in DOMAIN locals.centered2 |-> Log1p(Norm2(locals.centered2[i]))]]
    /\ scale_pc' = "radii"
    /\ UNCHANGED <<df, scale_coords, coords_in, returned>>
    /\ UNCHANGED nonCoordsVars

\* factor = r_log / r_safe; scaled = centered * factor[:, None]
\* return scaled + center; the caller then applies the function once more to
\* the same array
ScaleAndReturn ==
    /\ scale_pc = "radii"
    /\ returned' = Append(returned,
                     [i \in DOMAIN locals.centered2 |->
                        Shift(Scale(locals.centered2[i],
                                    Quot(locals.r_log[i], locals.r_safe[i])),
                              locals.center2)])
    /\ locals' = NoLocals
    /\ scale_pc' = IF Len(returned) = 0 THEN "start" ELSE "done"
    /\ UNCHANGED <<df, scale_coords, coords_in>>
    /\ UNCHANGED nonCoordsVars

NextCoords ==
    \/ CenterCoords
    \/ Radii
    \/ ScaleAndReturn

SpecCoords == InitCoords /\ [][NextCoords]_vars

\* twice the coordinate-wise median of the input, from its definition: a
\* value with at most half of the values below it and at most half above it,
\* or the mean of the two values that split the column in halves
IsMedian2(m2, col) ==
    LET n == Len(col)
        below(v) == Cardinality({i \in DOMAIN col : col[i] < v})
        above(v) == Cardinality({i \in DOMAIN col : col[i] > v})
    IN \E a, b \in Range(col) :
         /\ a <= b /\ m2 = a + b
         /\ 2 * below(a) <= n /\ 2 * above(b) <= n
         /\ 2 * (below(a) + Cardinality({i \in DOMAIN col : col[i] = a})) >= n
         /\ 2 * (above(b) + Cardinality({i \in DOMAIN col : col[i] = b})) >= n
         /\ \A i \in DOMAIN col : ~(a < col[i] /\ col[i] < b)

\* C18: _log_radius_scale maps each point at distance r > 0 from the
\* coordinate-wise median c to c + (p - c) * log(1 + r) / r, the point at
\* distance log(1 + r) from c in the same direction; a point at c stays at c,
\* and no division by zero occurs.
C18_LogRadius ==
    /\ \A i \in DOMAIN locals.r_safe : locals.r_safe[i] # Zero
    /\ \A k \in DOMAIN returned : \A i \in DOMAIN coords_in :
         LET out == returned[k][i]
             p == coords_in[i]
         IN /\ out # NaN
            /\ IsMedian2(out.center2[1], [j \in DOMAIN coords_in |-> coords_in[j][1]])
            /\ IsMedian2(out.center2[2], [j \in DOMAIN coords_in |-> coords_in[j][2]])
            /\ LET v == <<2 * p[1] - out.center2[1], 2 * p[2] - out.center2[2]>>
                   q == Norm2(v)
               IN IF q = 0
                  THEN out.offset = Zero
                  ELSE /\ out.offset.vec = v
                       /\ out.offset.factor =
                            [term |-> "quot", num |-> [term |-> "log1p", q |-> q],
                             den |-> [term |-> "r", q |-> q]]

\* an array with a point at the median and a point away from it was scaled
C18_Witness ==
    /\ Len(returned) >= 1
    /\ \E i, j \in DOMAIN coords_in :
         /\ returned[1][i].offset = Zero
         /\ returned[1][j].offset # Zero
         /\ returned[1][j].offset.vec[1] # 0
         /\ returned[1][j].offset.vec[2] # 0

C20_StableTies ==
    \A c \in Range(calls) :
        c.top_packages # <<>> =>
            \A i, j \in DOMAIN c.cluster_data :
                (/\ i < j
                 /\ c.cluster_data[i].weekly_downloads = c.cluster_data[j].weekly_downloads
                 /\ c.cluster_data[j] \in Range(c.top_packages))
                    => c.cluster_data[i] \in Range(c.top_packages)

(***************************************************************************)
(* Absent download counts in the top-package selection (constellations.py, *)
(* lines 111-122; the nulls come from the left join of get_dataset).       *)
(***************************************************************************)
\* C21: a package whose weekly_downloads is absent is ranked as if it had 0
\* downloads: it is never selected while a member of the same cluster with a
\* positive download count is left out.
C21_AbsentRankedAsZero ==
    \A c \in Range(calls) :
        \A s \in Range(c.top_packages) :
            s.weekly_downloads = Null =>
                \A u \in Range(c.cluster_data) \ Range(c.top_packages) :
                    ~(u.weekly_downloads # Null /\ u.weekly_downloads > 0)

(***************************************************************************)
(* The pipeline of main() (src/pyatlas/scripts/setup.py).  A stage reads   *)
(* artifacts from the data folder and writes its own; the folder may hold  *)
(* files left by earlier runs.  Reading a file that is not there raises    *)
(* and ends main().  The computations inside the stages and failures of    *)
(* the network are left out: a stage whose inputs exist completes.         *)
(***************************************************************************)
\* the stages main() calls, in its order
MainStages ==
    <<"download_raw_dataset", "process_raw_dataset", "create_vector_embeddings",
      "generate_clusters", "calculate_cluster_labels", "calculate_cluster_metadata",
      "generate_json_outputs">>

\* the files of the data folder
Artifacts ==
    {"raw_dataset_csv", "processed_dataset_csv", "embeddings_parquet",
     "clustered_dataset_csv", "cluster_labels_csv", "cluster_metadata_csv",
     "constellations_csv", "packages_json", "clusters_json", "constellations_json"}

\* the files a stage reads, in the order of its reads
StageReads(stage) ==
    CASE stage = "download_raw_dataset" -> <<>>
      [] stage = "process_raw_dataset" -> <<"raw_dataset_csv">>
      [] stage = "create_vector_embeddings" -> <<"processed_dataset_csv">>
      [] stage = "generate_clusters" -> <<"embeddings_parquet", "processed_dataset_csv">>
      [] stage = "calculate_cluster_labels" -> <<"clustered_dataset_csv">>
      [] stage = "calculate_cluster_metadata" -> <<"clustered_dataset_csv">>
      [] stage = "calculate_constellations" -> <<"clustered_dataset_csv">>
      [] stage = "generate_json_outputs" ->
            <<"clustered_dataset_csv", "cluster_metadata_csv", "cluster_labels_csv",
              "constellations_csv">>

\* the files a stage writes when it runs to its end; the download is skipped
\* when the raw dataset exists and overwrite_download is off
StageWrites(stage, folder, overwrite) ==
    CASE stage = "download_raw_dataset" ->
            IF "raw_dataset_csv" \in folder /\ ~overwrite THEN {} ELSE {"raw_dataset_csv"}
      [] stage = "process_raw_dataset" -> {"processed_dataset_csv"}
      [] stage = "create_vector_embeddings" -> {"embeddings_parquet"}
      [] stage = "generate_clusters" -> {"clustered_dataset_csv"}
      [] stage = "calculate_cluster_labels" -> {"cluster_labels_csv"}
      [] stage = "calculate_cluster_metadata" -> {"cluster_metadata_csv"}
      [] stage = "calculate_constellations" -> {"constellations_csv"}
      [] stage = "generate_json_outputs" ->
            {"packages_json", "clusters_json", "constellations_json"}

AllStages == Range(MainStages) \cup {"calculate_constellations"}

\* the stage that writes an artifact
Writer(artifact) ==
    CHOOSE s \in AllStages : artifact \in StageWrites(s, {}, TRUE)

\* the reads of a stage that succeed: those before the first missing file
RECURSIVE ReadsDone(_, _)
ReadsDone(files, folder) ==
    IF files = <<>> \/ Head(files) \notin folder THEN <<>>
    ELSE <<Head(files)>> \o ReadsDone(Tail(files), folder)

\* the stage main() calls after a stage, "done" after the last one
StageAfter(stage) ==
    LET i == CHOOSE k \in DOMAIN MainStages : MainStages[k] = stage
    IN IF i = Len(MainStages) THEN "done" ELSE MainStages[i + 1]

InitMain ==
    /\ data_folder \in SUBSET Artifacts
    /\ overwrite_download \in BOOLEAN
    /\ main_pc = MainStages[1]
    /\ completed = {}
    /\ reads = <<>>
    /\ df = <<>>
    /\ ConstellationIdle
    /\ MetaIdle
    /\ LabelIdle
    /\ PromptIdle
    /\ IdsIdle
    /\ CoordsIdle
    /\ JsonIdle
    /\ ReduceIdle
    /\ DetectIdle
    /\ CleanIdle

\* one call of main(): the stage reads its inputs, and writes its outputs
\* unless a read failed
RunStage(stage) ==
    /\ main_pc = stage
    /\ LET done == ReadsDone(StageReads(stage), data_folder)
       IN /\ reads' = reads \o [i \in DOMAIN done |->
                                  [stage |-> stage, artifact |-> done[i],
                                   completed |-> completed]]
          /\ IF Len(done) < Len(StageReads(stage))
             THEN /\ main_pc' = "error"
                  /\ UNCHANGED <<data_folder, completed>>
             ELSE /\ data_folder' = data_folder \cup
                                      StageWrites(stage, data_folder, overwrite_download)
                  /\ completed' = completed \cup {stage}
                  /\ main_pc' = StageAfter(stage)
    /\ UNCHANGED <<df, overwrite_download>>
    /\ UNCHANGED nonMainVars

DownloadRawDataset == RunStage("download_raw_dataset")

ProcessRawDataset == RunStage("process_raw_dataset")

CreateVectorEmbeddings == RunStage("create_vector_embeddings")

GenerateClusters == RunStage("generate_clusters")

CalculateClusterLabels == RunStage("calculate_cluster_labels")

CalculateClusterMetadata == RunStage("calculate_cluster_metadata")

GenerateJsonOutputs == RunStage("generate_json_outputs")

NextMain ==
    \/ DownloadRawDataset
    \/ ProcessRawDataset
    \/ CreateVectorEmbeddings
    \/ GenerateClusters
    \/ CalculateClusterLabels
    \/ CalculateClusterMetadata
    \/ GenerateJsonOutputs

SpecMain == InitMain /\ [][NextMain]_vars

\* C22: in the run of main() a stage reads an artifact only after the stage
\* that writes this artifact has completed in the same run; in particular
\* the JSON export reads the clustered dataset, the cluster metadata, the
\* cluster labels and the constellation edges only after their stages.
C22_StrictPipeline ==
    \A i \in DOMAIN reads : Writer(reads[i].artifact) \in reads[i].completed

\* the same for every artifact but the constellation edges
StrictPipelineButConstellations ==
    \A i \in DOMAIN reads :
        reads[i].artifact # "constellations_csv" =>
            Writer(reads[i].artifact) \in reads[i].completed

(***************************************************************************)
(* generate_json_outputs (src/pyatlas/scripts/generate_json_outputs.py):   *)
(* the package list and the edge list.  package_name_to_id is a Python     *)
(* dict, kept as a set of <<name, id>> pairs with one pair per name.       *)
(***************************************************************************)
\* dict.get of a missing key
NoId == -1

\* the longest package list and edge list of the checked inputs
MaxJsonPackages == 3

MaxJsonEdges == 2

\* d[k] = v
DictSet(d, k, v) == {p \in d : p[1] # k} \cup {<<k, v>>}

\* d.get(k)
DictGet(d, k) ==
    IF \E p \in d : p[1] = k THEN (CHOOSE p \in d : p[1] = k)[2] ELSE NoId

IdIsTruthy(id) == id # NoId /\ id # 0

\* id is not None
IdIsNotNone(id) == id # NoId

\* a row of the clustered dataset, of which the edge loop uses the name only
PackageRow(name) ==
    LET i == CHOOSE k \in DOMAIN PackageNames : PackageNames[k] = name
    IN MakeRow(i, Layout[i], IntId(0), i)

\* a row of the constellations file
EdgeRow(from, to) ==
    MakeEdge(IntId(0), <<PackageRow(from), PackageRow(to)>>, <<1, 2>>)

\* package lists without repeated names, and edge lists over all the names
InitJson ==
    /\ \E n \in 0..MaxJsonPackages :
         \E names \in [1..n -> Range(PackageNames)] :
            /\ \A i, j \in 1..n : i # j => names[i] # names[j]
            /\ df_packages = [i \in 1..n |-> PackageRow(names[i])]
    /\ \E m \in 0..MaxJsonEdges :
         \E ends \in [1..m -> {e \in Range(PackageNames) \X Range(PackageNames) : e[1] # e[2]}] :
            df_constellations = [i \in 1..m |-> EdgeRow(ends[i][1], ends[i][2])]
    /\ json_pc = "packages"
    /\ edges_seen = 0
    /\ package_name_to_id = {}
    /\ packages = <<>>
    /\ constellations = <<>>
    /\ df = <<>>
    /\ ConstellationIdle
    /\ MetaIdle
    /\ LabelIdle
    /\ PromptIdle
    /\ IdsIdle
    /\ CoordsIdle
    /\ MainIdle
    /\ ReduceIdle
    /\ DetectIdle
    /\ CleanIdle

\* one iteration of `for idx, row in enumerate(df_packages.iter_rows(named=True))`
EmitPackage ==
    /\ json_pc = "packages"
    /\ Len(packages) < Len(df_packages)
    /\ LET idx == Len(packages)
           row == df_packages[idx + 1]
       IN /\ package_name_to_id' = DictSet(package_name_to_id, row.name, idx)
          /\ packages' = Append(packages,
                            [id |-> idx, name |-> row.name,
                             downloads |-> row.weekly_downloads,
                             x |-> row.x, y |-> row.y, clusterId |-> row.cluster_id])
    /\ UNCHANGED <<df, json_pc, df_packages, df_constellations, constellations,
                   edges_seen>>
    /\ UNCHANGED nonJsonVars

\* the package loop is over: constellations = []
StartEdges ==
    /\ json_pc = "packages"
    /\ Len(packages) = Len(df_packages)
    /\ json_pc' = "edges"
    /\ UNCHANGED <<df, edges_seen, df_packages, df_constellations, package_name_to_id, packages,
                   constellations>>
    /\ UNCHANGED nonJsonVars

\* one iteration of `for row in df_constellations.iter_rows(named=True)`
EmitEdge ==
    /\ json_pc = "edges"
    /\ edges_seen < Len(df_constellations)
    /\ LET row == df_constellations[edges_seen + 1]
           from_id == DictGet(package_name_to_id, row.from_package)
           to_id == DictGet(package_name_to_id, row.to_package)
       IN constellations' =
            IF IdIsNotNone(from_id) /\ IdIsNotNone(to_id)
            THEN Append(constellations,
                   [clusterId |-> row.cluster_id, fromId |-> from_id, toId |-> to_id,
                    fromX |-> row.from_x, fromY |-> row.from_y,
                    toX |-> row.to_x, toY |-> row.to_y])
            ELSE constellations
    /\ edges_seen' = edges_seen + 1
    /\ UNCHANGED <<df, json_pc, df_packages, df_constellations, package_name_to_id, packages>>
    /\ UNCHANGED nonJsonVars

\* json.dump of the lists
DumpJson ==
    /\ json_pc = "edges"
    /\ edges_seen = Len(df_constellations)
    /\ json_pc' = "done"
    /\ UNCHANGED <<df, edges_seen, df_packages, df_constellations, package_name_to_id,
                   packages, constellations>>
    /\ UNCHANGED nonJsonVars

NextJson ==
    \/ EmitPackage
    \/ StartEdges
    \/ EmitEdge
    \/ DumpJson

SpecJson == InitJson /\ [][NextJson]_vars

\* the names of the package list
JsonNames == {df_packages[i].name : i \in DOMAIN df_packages}

\* the position of a name in the package list, counted from 0
PositionOf(name) == (CHOOSE i \in DOMAIN df_packages : df_packages[i].name = name) - 1

\* the constellation edges whose two endpoints occur in the package list
ResolvableEdges ==
    SelectSeq(df_constellations,
              LAMBDA e : e.from_package \in JsonNames /\ e.to_package \in JsonNames)

\* C23: the JSON edge list contains exactly the constellation edges whose
\* from_package and to_package both occur in the package list, with fromId
\* and toId the ids of the package-list entries of those names; the package
\* ids are the row positions 0..N-1.
C23_EdgeIds ==
    /\ \A i \in DOMAIN packages :
         packages[i].id = i - 1 /\ packages[i].name = df_packages[i].name
    /\ json_pc = "done" =>
         /\ Len(packages) = Len(df_packages)
         /\ Len(constellations) = Len(ResolvableEdges)
         /\ \A k \in DOMAIN constellations :
              /\ constellations[k].fromId = PositionOf(ResolvableEdges[k].from_package)
              /\ constellations[k].toId = PositionOf(ResolvableEdges[k].to_package)
              /\ packages[constellations[k].fromId + 1].name = ResolvableEdges[k].from_package
              /\ packages[constellations[k].toId + 1].name = ResolvableEdges[k].to_package

\* an edge with an endpoint outside the package list was dropped and an edge
\* that starts at the package with id 0 was kept
C23_Witness ==
    /\ json_pc = "done"
    /\ Len(df_constellations) = 2
    /\ Len(constellations) = 1
    /\ constellations[1].fromId = 0
    /\ constellations[1].toId = 2

(***************************************************************************)
(* The UMAP projections: ClusterIdGenerator._unsupervised_cluster_with_umap *)
(* (clustering.py) and ClusterCoordinatesGenerator.                        *)
(* _supervised_cluster_with_umap (coordinates.py).  Neither function       *)
(* compares the number of points with n_neighbors or catches anything;     *)
(* what happens is up to umap-learn, the environment.  Given no more       *)
(* points than n_neighbors, UMAP.fit warns, lowers n_neighbors to the      *)
(* number of points minus one and goes on; the fit may still raise later   *)
(* (for instance in the spectral initialisation of few points), and both   *)
(* outcomes are kept.  normalize raises on an array without rows.          *)
(***************************************************************************)
\* the n_neighbors of a projection
NNeighbors(which) ==
    IF which = "clustering" THEN N_NEIGHBORS_CLUSTERING ELSE N_NEIGHBORS_DISPLAY

\* what fit_transform can do with n points: return coordinates computed with
\* the given neighbourhood size, or raise
FitOutcomes(n, n_neighbors) ==
    IF n > n_neighbors
    THEN {[raised |-> FALSE, neighbors |-> n_neighbors]}
    ELSE {[raised |-> FALSE, neighbors |-> Max2(n - 1, 0)],
          [raised |-> TRUE, neighbors |-> Max2(n - 1, 0)]}

NoFit == [raised |-> FALSE, neighbors |-> 0]

InitReduce ==
    /\ n_points \in 0..MaxPoints
    /\ projection \in {"clustering", "display"}
    /\ reduce_pc = "start"
    /\ fit = NoFit
    /\ df = <<>>
    /\ ConstellationIdle
    /\ MetaIdle
    /\ LabelIdle
    /\ PromptIdle
    /\ IdsIdle
    /\ CoordsIdle
    /\ MainIdle
    /\ JsonIdle
    /\ DetectIdle
    /\ CleanIdle

\* normalized_embeddings = normalize(embeddings, norm="l2")
NormalizeEmbeddings ==
    /\ reduce_pc = "start"
    /\ reduce_pc' = IF n_points = 0 THEN "error" ELSE "normalized"
    /\ UNCHANGED <<df, n_points, projection, fit>>
    /\ UNCHANGED nonReduceVars

\* coords = umap_reducer.fit_transform(normalized_embeddings); an exception
\* leaves the function and reaches the caller
FitTransform ==
    /\ reduce_pc = "normalized"
    /\ fit' \in FitOutcomes(n_points, NNeighbors(projection))
    /\ reduce_pc' = IF fit'.raised THEN "error" ELSE "fitted"
    /\ UNCHANGED <<df, n_points, projection>>
    /\ UNCHANGED nonReduceVars

\* return coords
ReturnCoords ==
    /\ reduce_pc = "fitted"
    /\ reduce_pc' = "done"
    /\ UNCHANGED <<df, n_points, projection, fit>>
    /\ UNCHANGED nonReduceVars

NextReduce ==
    \/ NormalizeEmbeddings
    \/ FitTransform
    \/ ReturnCoords

SpecReduce == InitReduce /\ [][NextReduce]_vars

\* C24: with fewer points than the neighbourhood size of the projection
\* (10 for the clustering projection, 12 for the display projection) the
\* reduction fails with an error that reaches the caller; it never returns
\* coordinates computed from a reduced neighbourhood.
C24_InsufficientData ==
    n_points < NNeighbors(projection) => reduce_pc \notin {"fitted", "done"}

\* with enough points the projection uses the neighbourhood size it was
\* given
FullNeighbourhood ==
    (reduce_pc = "done" /\ n_points > NNeighbors(projection)) =>
        fit.neighbors = NNeighbors(projection)

(***************************************************************************)
(* ContentTypeDetector (src/pymap/data/description/                        *)
(* content_type_detector.py).  The content type metadata is a sequence of  *)
(* characters.  A description is given by what the detector reads of it:   *)
(* whether it is None, the number of characters before, in and after its   *)
(* stripped text, and the number of matches findall returns for each of    *)
(* the nine patterns.                                                      *)
(***************************************************************************)
\* str.lower() of one character, for the letters of the checked metadata
LowerChar(c) ==
    CASE c = "M" -> "m" [] c = "A" -> "a" [] c = "R" -> "r" [] c = "K" -> "k"
      [] c = "D" -> "d" [] c = "O" -> "o" [] c = "W" -> "w" [] c = "N" -> "n"
      [] c = "S" -> "s" [] c = "T" -> "t" [] c = "X" -> "x" [] OTHER -> c

\* str.lower()
Lower(s) == [i \in DOMAIN s |-> LowerChar(s[i])]

\* sub in s
Contains(s, sub) ==
    \E i \in 0..(Len(s) - Len(sub)) : SubSeq(s, i + 1, i + Len(sub)) = sub

\* the content type metadata of the checked inputs: prefix, type and suffix
TypePrefixes == {<<>>,
                 <<"t", "e", "x", "t", "/">>,
                 <<"t", "e", "x", "t", "/", "x", "-">>}

TypeCores ==
    {<<>>,
     <<"m", "a", "r", "k", "d", "o", "w", "n">>,
     <<"M", "A", "R", "K", "D", "O", "W", "N">>,
     <<"M", "a", "r", "k", "D", "o", "w", "n">>,
     <<"m", "a", "r", "k", "d", "o", "w">>,
     <<"r", "s", "t">>,
     <<"R", "S", "T">>,
     <<"R", "s", "t">>,
     <<"r", "-", "s", "t">>,
     <<"p", "l", "a", "i", "n">>,
     <<"r", "s", "t", "m", "a", "r", "k", "d", "o", "w", "n">>}

TypeSuffixes == {<<>>,
                 <<";", " ", "v", "a", "r", "i", "a", "n", "t", "=", "G", "F", "M">>,
                 <<";", " ", "f", "i", "r", "s", "t">>}

ContentTypes == {p \o c \o s : p \in TypePrefixes, c \in TypeCores, s \in TypeSuffixes}

RstPatterns == {"directive", "header_underline", "field", "inline_role"}

MarkdownPatterns == {"header", "link", "image", "bold", "code_block"}

RECURSIVE SumOver(_, _)
\* the sum of f over the patterns of a set
SumOver(S, f) ==
    IF S = {} THEN 0
    ELSE LET p == CHOOSE q \in S : TRUE IN f[p] + SumOver(S \ {p}, f)

\* the score one RST pattern adds for its number of matches
RstWeight(pattern_name, n) ==
    IF n = 0 THEN 0
    ELSE IF pattern_name = "directive" THEN n * 5
    ELSE IF pattern_name = "header_underline" THEN n * 3
    ELSE IF pattern_name = "field" THEN (IF n >= 2 THEN n * 2 ELSE 0)
    ELSE n

_calculate_rst_score(matches) ==
    SumOver(RstPatterns, [p \in RstPatterns |-> RstWeight(p, matches[p])])

\* the score one Markdown pattern adds for its number of matches
MarkdownWeight(pattern_name, n) ==
    IF n = 0 THEN 0
    ELSE IF pattern_name \in {"header", "link", "image"} THEN n * 3
    ELSE IF pattern_name = "code_block" THEN n * 2
    ELSE n

_calculate_markdown_score(matches) ==
    SumOver(MarkdownPatterns, [p \in MarkdownPatterns |-> MarkdownWeight(p, matches[p])])

_detect_from_metadata(ct) ==
    LET content_type_lower == Lower(ct)
    IN IF Contains(content_type_lower, <<"m", "a", "r", "k", "d", "o", "w", "n">>)
       THEN "MARKDOWN"
       ELSE IF \/ Contains(content_type_lower, <<"x", "-", "r", "s", "t">>)
               \/ Contains(content_type_lower, <<"r", "s", "t">>)
       THEN "RST"
       ELSE "PLAIN"

\* not description or len(description.strip()) < 10
TooShort(text) ==
    \/ text.none
    \/ text.leading + text.stripped + text.trailing = 0
    \/ text.stripped < MIN_DESCRIPTION_LENGTH

RstWinsTies(rst_score, markdown_score) ==
    IF rst_score > 0 /\ rst_score >= markdown_score THEN "RST"
    ELSE IF markdown_score > 0 THEN "MARKDOWN"
    ELSE "PLAIN"

\* the decision of _detect_from_heuristics on the two scores
FromScores(rst_score, markdown_score) ==
    IF rst_score > 0 /\ rst_score > markdown_score THEN "RST"
    ELSE IF markdown_score > 0 THEN "MARKDOWN"
    ELSE "PLAIN"

_detect_from_heuristics(text) ==
    IF TooShort(text)
    THEN "PLAIN"
    ELSE FromScores(_calculate_rst_score(text.matches),
                    _calculate_markdown_score(text.matches))

MetadataIsTruthy(ct) == ct.given /\ ct.text # <<>>

\* content_type is not None
MetadataIsNotNone(ct) == ct.given

\* detect(description, content_type)
Detect(text, ct) ==
    IF MetadataIsNotNone(ct)
    THEN _detect_from_metadata(ct.text)
    ELSE _detect_from_heuristics(text)

AllPatterns == RstPatterns \cup MarkdownPatterns

NoMatches == [p \in AllPatterns |-> 0]

\* descriptions: None, empty, blank, short texts with at most one match,
\* a text of 9 characters between two blanks, and texts of 10 characters
\* with every combination of match counts
Descriptions ==
    {[none |-> TRUE, leading |-> 0, stripped |-> 0, trailing |-> 0, matches |-> NoMatches]}
    \cup
    {[none |-> FALSE, leading |-> w, stripped |-> 0, trailing |-> 0, matches |-> NoMatches] :
        w \in 0..1}
    \cup
    {[none |-> FALSE, leading |-> 1, stripped |-> MIN_DESCRIPTION_LENGTH - 1, trailing |-> 1,
      matches |-> [NoMatches EXCEPT ![p] = 1]] : p \in {"header", "bold", "code_block", "field"}}
    \cup
    {[none |-> FALSE, leading |-> 0, stripped |-> MIN_DESCRIPTION_LENGTH, trailing |-> 0,
      matches |-> m] : m \in [AllPatterns -> 0..MaxMatches]}

\* a description with Markdown marks, as the one passed next to metadata
MarkdownText ==
    [none |-> FALSE, leading |-> 0, stripped |-> MIN_DESCRIPTION_LENGTH, trailing |-> 0,
     matches |-> [NoMatches EXCEPT !["header"] = 1, !["link"] = 1]]

\* a description with RST marks
RstText ==
    [none |-> FALSE, leading |-> 0, stripped |-> MIN_DESCRIPTION_LENGTH, trailing |-> 0,
     matches |-> [NoMatches EXCEPT !["directive"] = 2]]

NoContentType == [given |-> FALSE, text |-> <<>>]

\* detect is called with metadata and one of three descriptions, or without
\* metadata and any description
InitDetect ==
    /\ \/ /\ \E t \in ContentTypes : content_type = [given |-> TRUE, text |-> t]
          /\ description \in {MarkdownText, RstText,
                              [MarkdownText EXCEPT !.matches = NoMatches]}
       \/ /\ content_type = NoContentType
          /\ description \in Descriptions
    /\ detect_pc = "start"
    /\ detected = "none"
    /\ df = <<>>
    /\ ConstellationIdle
    /\ MetaIdle
    /\ LabelIdle
    /\ PromptIdle
    /\ IdsIdle
    /\ CoordsIdle
    /\ MainIdle
    /\ JsonIdle
    /\ ReduceIdle
    /\ CleanIdle

\* if content_type is not None: return self._detect_from_metadata(content_type)
DetectFromMetadata ==
    /\ detect_pc = "start"
    /\ MetadataIsNotNone(content_type)
    /\ detected' = Detect(description, content_type)
    /\ detect_pc' = "done"
    /\ UNCHANGED <<df, description, content_type>>
    /\ UNCHANGED nonDetectVars

\* return self._detect_from_heuristics(description)
DetectFromHeuristics ==
    /\ detect_pc = "start"
    /\ ~MetadataIsNotNone(content_type)
    /\ detected' = Detect(description, content_type)
    /\ detect_pc' = "done"
    /\ UNCHANGED <<df, description, content_type>>
    /\ UNCHANGED nonDetectVars

NextDetect ==
    \/ DetectFromMetadata
    \/ DetectFromHeuristics

SpecDetect == InitDetect /\ [][NextDetect]_vars

\* C25: with a content_type that is not None the result depends on that
\* string only, never on the description: MARKDOWN if it contains 'markdown'
\* in any case of the letters, otherwise RST if it contains 'rst', otherwise
\* PLAIN.
C25_FromMetadata ==
    (detect_pc = "done" /\ content_type.given) =>
        detected =
            IF \E i \in 0..(Len(content_type.text) - 8) :
                 Lower(SubSeq(content_type.text, i + 1, i + 8)) = <<"m", "a", "r", "k", "d", "o", "w", "n">>
            THEN "MARKDOWN"
            ELSE IF \E i \in 0..(Len(content_type.text) - 3) :
                      Lower(SubSeq(content_type.text, i + 1, i + 3)) = <<"r", "s", "t">>
            THEN "RST"
            ELSE "PLAIN"

\* the empty metadata string next to a description with Markdown marks gave
\* PLAIN
C25_Witness ==
    /\ detect_pc = "done"
    /\ content_type = [given |-> TRUE, text |-> <<>>]
    /\ description = MarkdownText
    /\ detected = "PLAIN"

\* the scores, from the match counts and the weights of the patterns
RstScoreOf(d) ==
    5 * d.matches["directive"] + 3 * d.matches["header_underline"]
    + (IF d.matches["field"] >= 2 THEN 2 * d.matches["field"] ELSE 0)
    + d.matches["inline_role"]

MarkdownScoreOf(d) ==
    3 * (d.matches["header"] + d.matches["link"] + d.matches["image"])
    + 2 * d.matches["code_block"] + d.matches["bold"]

\* C29: without metadata the result is PLAIN for an empty description or one
\* with fewer than 10 characters after stripping; otherwise RST exactly when
\* the RST score is positive and strictly greater than the Markdown score,
\* MARKDOWN when that is not so and the Markdown score is positive (ties
\* included), and PLAIN when both scores are 0.
C29_FromHeuristics ==
    (detect_pc = "done" /\ ~content_type.given) =>
        LET r == RstScoreOf(description)
            m == MarkdownScoreOf(description)
        IN IF description.none \/ description.stripped < 10
           THEN detected = "PLAIN"
           ELSE /\ detected = "RST" <=> (r > 0 /\ r > m)
                /\ detected = "MARKDOWN" <=> (m > 0 /\ ~(r > m))
                /\ detected = "PLAIN" <=> (r = 0 /\ m = 0)

\* a description of 10 characters whose two scores are equal and positive
\* was detected as Markdown
C29_Witness ==
    /\ detect_pc = "done"
    /\ ~content_type.given
    /\ description.stripped >= 10
    /\ RstScoreOf(description) = 3
    /\ MarkdownScoreOf(description) = 3
    /\ detected = "MARKDOWN"

(***************************************************************************)
(* DescriptionCleaner.extract_text (src/pyatlas/data/description/          *)
(* description_cleaner.py) with render_and_extract_text                    *)
(* (description_parser.py).  A description is null or a sequence of        *)
(* characters.  What the detector, readme_renderer and BeautifulSoup do    *)
(* for a row is chosen by the environment.                                 *)
(***************************************************************************)
NullText == [null |-> TRUE, text |-> <<>>]

TextOf(s) == [null |-> FALSE, text |-> s]

\* the rows of the checked frames: a null, an empty and a blank description
\* and two texts, the second without content type metadata
CleanerRows ==
    {[description |-> NullText, description_content_type |-> "text/markdown"],
     [description |-> TextOf(<<>>), description_content_type |-> "text/markdown"],
     [description |-> TextOf(<<" ", " ">>), description_content_type |-> "text/markdown"],
     [description |-> TextOf(<<"#", " ", "A">>), description_content_type |-> "text/markdown"],
     [description |-> TextOf(<<" ", "B">>), description_content_type |-> "null"]}

\* the plain text BeautifulSoup extracts
ExtractedTexts == {<<>>, <<"A">>, <<"B">>}

\* what detection and rendering do for one description
RowOutcomes ==
    {[kind |-> k, text |-> <<>>] :
        k \in {"detect_raises", "extract_raises", "render_raises", "html_none", "soup_raises"}}
    \cup {[kind |-> "text", text |-> s] : s \in ExtractedTexts}

\* render_and_extract_text(description, content_type); raised tells whether
\* an exception leaves the function
render_and_extract_text(text, outcome) ==
    IF text = <<>> \/ Strip(text) = <<>>
    THEN [raised |-> FALSE, value |-> <<>>]
    ELSE IF outcome.kind = "extract_raises"
    THEN [raised |-> TRUE, value |-> <<>>]
    ELSE IF outcome.kind \in {"render_raises", "html_none", "soup_raises"}
    THEN [raised |-> FALSE, value |-> <<>>]
    ELSE [raised |-> FALSE, value |-> outcome.text]

_process_row_uncaught(row, outcome) ==
    IF row.description.null \/ Strip(row.description.text) = <<>>
    THEN [raised |-> FALSE, value |-> <<>>]
    ELSE IF outcome.kind = "detect_raises"
    THEN [raised |-> TRUE, value |-> <<>>]
    ELSE render_and_extract_text(row.description.text, outcome)

\* _process_row(row, input_col)
_process_row(row, outcome) ==
    IF row.description.null \/ Strip(row.description.text) = <<>>
    THEN [raised |-> FALSE, value |-> <<>>]
    ELSE IF outcome.kind = "detect_raises"
    THEN [raised |-> FALSE, value |-> <<>>]
    ELSE LET extracted == render_and_extract_text(row.description.text, outcome)
         IN IF extracted.raised
            THEN [raised |-> FALSE, value |-> <<>>]
            ELSE [raised |-> FALSE, value |-> extracted.value]

\* whether _process_row reaches the detector for a row
ReachesDetector(row) == ~(row.description.null \/ Strip(row.description.text) = <<>>)

InitClean ==
    /\ \E n \in 0..MaxRows : clean_df \in [1..n -> CleanerRows]
    /\ clean_pc = "loop"
    /\ results = <<>>
    /\ clean_log = <<>>
    /\ clean_out = <<>>
    /\ df = <<>>
    /\ ConstellationIdle
    /\ MetaIdle
    /\ LabelIdle
    /\ PromptIdle
    /\ IdsIdle
    /\ CoordsIdle
    /\ MainIdle
    /\ JsonIdle
    /\ ReduceIdle
    /\ DetectIdle

\* results.append(self._process_row(row, input_col=input_col)) for the next
\* row of df.iter_rows
ProcessRow ==
    /\ clean_pc = "loop"
    /\ Len(results) < Len(clean_df)
    /\ LET row == clean_df[Len(results) + 1]
       IN \E outcome \in (IF ReachesDetector(row) THEN RowOutcomes
                          ELSE {[kind |-> "unused", text |-> <<>>]}) :
            LET r == _process_row(row, outcome)
            IN IF r.raised
               THEN /\ clean_pc' = "error"
                    /\ UNCHANGED <<results, clean_log>>
               ELSE /\ results' = Append(results, r.value)
                    /\ clean_log' = Append(clean_log, outcome)
                    /\ clean_pc' = "loop"
    /\ UNCHANGED <<df, clean_df, clean_out>>
    /\ UNCHANGED nonCleanVars

\* df = df.with_columns(pl.Series(name=output_col, values=results)); return df
WithColumns ==
    /\ clean_pc = "loop"
    /\ Len(results) = Len(clean_df)
    /\ clean_out' = [i \in DOMAIN clean_df |-> WithColumn(clean_df[i], "text", results[i])]
    /\ clean_pc' = "done"
    /\ UNCHANGED <<df, clean_df, results, clean_log>>
    /\ UNCHANGED nonCleanVars

NextClean ==
    \/ ProcessRow
    \/ WithColumns

SpecClean == InitClean /\ [][NextClean]_vars

C27_EdgeCoordinates ==
    /\ \A e \in EdgeSet :
         \E r, q \in Range(df) :
            /\ r.name = e.from_package
            /\ q.name = e.to_package
            /\ e.from_x = r.x /\ e.from_y = r.y
            /\ e.to_x = q.x /\ e.to_y = q.y
    /\ pc = "done" =>
         result.rows = SelectSeq(all_edges, LAMBDA e : e \in Range(result.rows))

\* two edges with endpoints at different x were returned and a pre-filter
\* edge before the last returned one was dropped
C27_Witness ==
    /\ pc = "done"
    /\ Len(result.rows) >= 2
    /\ \A e \in Range(result.rows) : e.from_x # e.to_x
    /\ \E i, j \in DOMAIN all_edges :
         /\ i < j
         /\ all_edges[i] \notin Range(result.rows)
         /\ all_edges[j] \in Range(result.rows)

(***************************************************************************)
(* Independence of the per-cluster calls (constellations.py, lines 53-65   *)
(* and 98-140).                                                            *)
(***************************************************************************)
\* the rows of one cluster, as a frame of their own
Alone(cid) == SelectSeq(df, LAMBDA r : r.cluster_id = cid)

\* the orders n calls can be joined in
Orders(n) == {p \in [1..n -> 1..n] : \A i, j \in 1..n : i # j => p[i] # p[j]}

RECURSIVE Joined(_, _)
\* the edges of the calls joined in the order p
Joined(p, k) ==
    IF k = 0 THEN <<>> ELSE Joined(p, k - 1) \o calls[p[k]].edges

ReadFromCsv == \A i \in DOMAIN df : df[i].cluster_id.t = "int"

\* C30: on the clustered dataset read back from CSV the external labeling
\* service is never called for the noise cluster, and the noise cluster is
\* labelled 'Not clustered'.
C30_NoiseNotCalled ==
    ReadFromCsv =>
        /\ \A c \in Range(label_calls) : c.cluster_id.v # -1
        /\ \A r \in Range(label_rows) :
             r.cluster_id.v = -1 => r.cluster_label = NotClustered

====
